---- MODULE Spec2Model ----
(***************************************************************************)
(* Content-scanning engine of bond-apis: the Aho-Corasick pattern          *)
(* automaton (src/src/modules/aho_corasick.py), the text normalizer        *)
(* (src/src/modules/normalizer.py, base64_helpers.py) and the regex        *)
(* execution engine (src/src/modules/regex_engine.py).                     *)
(*                                                                         *)
(* A Python str is a sequence of one-character strings; list and dict      *)
(* indices keep the source's numbering (trie states start at 0).           *)
(* Optional[T] is <<>> for None and <<v>> for a value v.                   *)
(* Weights are in tenths (1.0 is 10).                                      *)
(***************************************************************************)
EXTENDS Integers, Sequences, FiniteSets, TLC

(***************************************************************************)
(* Bounds of the model.                                                    *)
(***************************************************************************)
MaxTextLen == 3
MaxPatterns == 2

(***************************************************************************)
(* Characters.  A character is a one-character string; a control           *)
(* character, the double quote, the backslash and the backquote are named  *)
(* by their code (x09 is the tab), a character outside ASCII by its code   *)
(* point (U+FF21).                                                         *)
(***************************************************************************)
\* chr(code) for code in 0..127, at index code + 1
AsciiChars ==
    <<
     "x00", "x01", "x02", "x03", "x04", "x05", "x06", "x07", "x08", "x09",
     "x0a", "x0b", "x0c", "x0d", "x0e", "x0f", "x10", "x11", "x12", "x13",
     "x14", "x15", "x16", "x17", "x18", "x19", "x1a", "x1b", "x1c", "x1d",
     "x1e", "x1f", " ", "!", "x22", "#", "$", "%", "&", "'", "(", ")", "*",
     "+", ",", "-", ".", "/", "0", "1", "2", "3", "4", "5", "6", "7", "8",
     "9", ":", ";", "<", "=", ">", "?", "@", "A", "B", "C", "D", "E", "F",
     "G", "H", "I", "J", "K", "L", "M", "N", "O", "P", "Q", "R", "S", "T",
     "U", "V", "W", "X", "Y", "Z", "[", "x5c", "]", "^", "_", "x60", "a", "b",
     "c", "d", "e", "f", "g", "h", "i", "j", "k", "l", "m", "n", "o", "p",
     "q", "r", "s", "t", "u", "v", "w", "x", "y", "z", "{", "|", "}", "~",
     "x7f"
    >>

Chr(code) == AsciiChars[code + 1]
IsAscii(c) == \E code \in 0..127 : AsciiChars[code + 1] = c
Ord(c) == CHOOSE code \in 0..127 : AsciiChars[code + 1] = c

UpperChars == {Chr(code) : code \in 65..90}
LowerChars == {Chr(code) : code \in 97..122}

\* the characters outside ASCII that the texts use or decode to: fullwidth A
\* and a, the ligature fi, the no-break space, e with acute, the replacement
\* character, the combining macron below, h with line below (which is h and
\* the macron composed; there is no H with line below), and one name for
\* the printable symbols (such as the euro sign)
FullwidthUpperA == "U+FF21"
FullwidthLowerA == "U+FF41"
LigatureFi == "U+FB01"
NoBreakSpace == "U+00A0"
ReplacementChar == "U+FFFD"
LatinSmallEAcute == "U+00E9"
CombiningMacronBelow == "U+0331"
LatinSmallHLineBelow == "U+1E96"
OtherNonAscii == "U+xxxx"

\* str.isspace, which is also what \s matches and what str.strip removes
IsSpace(c) ==
    c \in {Chr(9), Chr(10), Chr(11), Chr(12), Chr(13), Chr(28), Chr(29), Chr(30), Chr(31),
           Chr(32), NoBreakSpace}

\* str.isprintable
IsPrintable(c) ==
    IF IsAscii(c) THEN Ord(c) >= 32 /\ Ord(c) <= 126
    ELSE c \in {FullwidthUpperA, FullwidthLowerA, LigatureFi, LatinSmallEAcute,
               ReplacementChar, CombiningMacronBelow, LatinSmallHLineBelow,
               OtherNonAscii}

\* str.lower, one character
LowerChar(c) ==
    IF c \in UpperChars THEN Chr(Ord(c) + 32)
    ELSE IF c = FullwidthUpperA THEN FullwidthLowerA
    ELSE c

\* unicodedata.normalize("NFKC", c), the compatibility decomposition of one
\* character (ASCII is left alone)
NfkcChar(c) ==
    IF c = FullwidthUpperA THEN <<"A">>
    ELSE IF c = FullwidthLowerA THEN <<"a">>
    ELSE IF c = LigatureFi THEN <<"f", "i">>
    ELSE IF c = NoBreakSpace THEN <<" ">>
    ELSE IF c = LatinSmallHLineBelow THEN <<"h", CombiningMacronBelow>>
    ELSE <<c>>

\* str.isalpha, str.isdigit and str.isalnum
AlphaChars ==
    UpperChars \cup LowerChars
    \cup {FullwidthUpperA, FullwidthLowerA, LigatureFi, LatinSmallEAcute,
          LatinSmallHLineBelow}
DigitChars == {Chr(code) : code \in 48..57}

CharIsAlnum(c) == c \in AlphaChars \cup DigitChars

StrIsAlpha(s) == Len(s) > 0 /\ \A k \in 1..Len(s) : s[k] \in AlphaChars
StrIsDigit(s) == Len(s) > 0 /\ \A k \in 1..Len(s) : s[k] \in DigitChars
StrIsAlnum(s) == Len(s) > 0 /\ \A k \in 1..Len(s) : CharIsAlnum(s[k])

\* text[lo:hi] for 0 <= lo <= hi <= len(text)
Slice(text, lo, hi) == [k \in 1..(hi - lo) |-> text[lo + k]]

\* text[idx] succeeds iff -len <= idx < len; a negative index counts from the end
PyIndexOK(text, idx) == idx >= -Len(text) /\ idx < Len(text)
PyIndex(text, idx) == IF idx >= 0 THEN text[idx + 1] ELSE text[Len(text) + idx + 1]

StringsUpTo(alphabet, n) == UNION {[1..k -> alphabet] : k \in 0..n}

(***************************************************************************)
(* Match types, word types and weights.                                    *)
(***************************************************************************)
MATCH_SUBSTRING == 1
MATCH_PREFIX == 2
MATCH_SUFFIX == 4
MATCH_FULL_WORD == 8
MATCH_FILTERED_WORD == 16

WORD_TYPE_ANY == 0
WORD_TYPE_ALPHA == 1
WORD_TYPE_DIGIT == 2
WORD_TYPE_ALNUM == 4

MATCH_WEIGHTS ==
    (MATCH_FULL_WORD :> 10) @@ (MATCH_PREFIX :> 6) @@ (MATCH_SUFFIX :> 6)
    @@ (MATCH_SUBSTRING :> 2) @@ (MATCH_FILTERED_WORD :> 7)

VARIABLES
    transitions,  \* AhoCorasick.transitions: state -> (char -> state)
    outputs,      \* AhoCorasick.outputs: state -> set of patterns
    fail,         \* AhoCorasick.fail: state -> state
    is_built,     \* AhoCorasick.is_built
    set_order,    \* iteration order of the output sets (fixed per process)
    added,        \* the patterns add_pattern has inserted so far
    text,         \* the text handed to the scan operations
    word_filters, \* the word_filters argument of the scan operations
    span,         \* the (start, end) arguments of _process_word_filters
    config,       \* the Normalizer's configuration
    rules,        \* RegexEngine.rules
    threads,      \* the scans in progress, one per thread
    db,           \* the registry collections of the database
    cache,        \* the class attributes of RegistryCache
    op,           \* the operation that ran last
    ret,          \* what it returned
    err           \* the exception it raised, "none" when it returned

vars == <<transitions, outputs, fail, is_built, set_order, added, text,
          word_filters, span, config, rules, threads, db, cache, op, ret, err>>

\* what the operations are given and never assign
env == <<set_order, text, word_filters, config, rules>>

tables == <<transitions, outputs, fail, is_built>>

registry == <<db, cache>>

(***************************************************************************)
(* cache.py: the class body of RegistryCache, and a database without       *)
(* registry documents.  A registry collection is the set of the ids of its *)
(* documents; type_registry maps a type_id to the sensitivity of its       *)
(* document.                                                               *)
(***************************************************************************)
NoTypes == [t \in {} |-> ""]

\* sensitivities = set() ... types = {}; the class has no attribute "operators"
NewRegistryCache ==
    [sensitivities |-> {}, actions |-> {}, policy_operators |-> {}, charsets |-> {},
     types |-> NoTypes]

NoDocuments ==
    [sensitivity_registry |-> {}, action_registry |-> {}, operator_registry |-> {},
     charset_registry |-> {}, type_registry |-> NoTypes]

\* The process has not loaded the cache, and nothing is stored
Unloaded == db = NoDocuments /\ cache = NewRegistryCache

(***************************************************************************)
(* AhoCorasick.__init__ and add_pattern.                                   *)
(***************************************************************************)
NoTransitions == [c \in {} |-> 0]

NumStates(tr) == Cardinality(DOMAIN tr)

\* One automaton as a record, threaded through the loops below.
Automaton(tr, out, fl) == [transitions |-> tr, outputs |-> out, fail |-> fl]

NewAutomaton ==
    Automaton([s \in {0} |-> NoTransitions], [s \in {0} |-> {}], [s \in {0} |-> 0])

\* add_pattern without the test "if char not in self.transitions[state]":
\* a new state for every character
RECURSIVE InsertFromAlwaysNew(_, _, _, _)
InsertFromAlwaysNew(a, state, pattern, k) ==
    IF k > Len(pattern) THEN [a |-> a, state |-> state]
    ELSE LET char == pattern[k]
             n == NumStates(a.transitions)
             tr == [s \in 0..n |->
                      IF s = n THEN NoTransitions
                      ELSE IF s = state
                           THEN [c \in DOMAIN a.transitions[s] \cup {char} |->
                                   IF c = char THEN n ELSE a.transitions[s][c]]
                           ELSE a.transitions[s]]
             out == [s \in 0..n |-> IF s = n THEN {} ELSE a.outputs[s]]
             fl == [s \in 0..n |-> IF s = n THEN 0 ELSE a.fail[s]]
         IN InsertFromAlwaysNew(Automaton(tr, out, fl), n, pattern, k + 1)

\* The body of "for char in pattern" from position k on, starting in `state`;
\* returns the automaton and the state the loop ends in.
RECURSIVE InsertFrom(_, _, _, _)
InsertFrom(a, state, pattern, k) ==
    IF k > Len(pattern) THEN [a |-> a, state |-> state]
    ELSE LET char == pattern[k]
             n == NumStates(a.transitions)
         IN IF char \in DOMAIN a.transitions[state]
            THEN InsertFrom(a, a.transitions[state][char], pattern, k + 1)
            ELSE LET tr == [s \in 0..n |->
                             IF s = n THEN NoTransitions
                             ELSE IF s = state
                                  THEN [c \in DOMAIN a.transitions[s] \cup {char} |->
                                          IF c = char THEN n ELSE a.transitions[s][c]]
                                  ELSE a.transitions[s]]
                     out == [s \in 0..n |-> IF s = n THEN {} ELSE a.outputs[s]]
                     fl == [s \in 0..n |-> IF s = n THEN 0 ELSE a.fail[s]]
                 IN InsertFrom(Automaton(tr, out, fl), n, pattern, k + 1)

InsertPattern(a, pattern) ==
    LET r == InsertFrom(a, 0, pattern, 1)
    IN [r.a EXCEPT !.outputs[r.state] = @ \cup {pattern}]

(***************************************************************************)
(* AhoCorasick.build.                                                      *)
(***************************************************************************)
\* dict.items() yields in insertion order; the children of a state are
\* created with increasing state numbers, so that is increasing child order.
RECURSIVE ItemsFrom(_, _)
ItemsFrom(trs, done) ==
    LET rest == {c \in DOMAIN trs : trs[c] \notin done}
    IN IF rest = {} THEN <<>>
       ELSE LET c == CHOOSE x \in rest : \A y \in rest : trs[x] <= trs[y]
            IN <<[char |-> c, next_state |-> trs[c]]>> \o ItemsFrom(trs, done \cup {trs[c]})

Items(trs) == ItemsFrom(trs, {})

\* the walk does not stop at a state that has a transition on char: from
\* every state back to the root
FailWalkToRoot(a, fail_state, char) ==
    IF fail_state > 0 THEN 0 ELSE fail_state

\* while fail_state > 0 and char not in self.transitions[fail_state]
RECURSIVE FailWalk(_, _, _)
FailWalk(a, fail_state, char) ==
    IF fail_state > 0 /\ char \notin DOMAIN a.transitions[fail_state]
    THEN FailWalk(a, a.fail[fail_state], char)
    ELSE fail_state

\* dict.get(char, 0)
Goto(a, state, char) ==
    IF char \in DOMAIN a.transitions[state] THEN a.transitions[state][char] ELSE 0

\* build without the inheritance of outputs along the failure link
RECURSIVE BuildChildrenNoInherit(_, _, _, _, _)
BuildChildrenNoInherit(a, queue, current_state, items, k) ==
    IF k > Len(items) THEN [a |-> a, queue |-> queue]
    ELSE LET char == items[k].char
             next_state == items[k].next_state
             fail_state == FailWalk(a, a.fail[current_state], char)
             f == Goto(a, fail_state, char)
             a1 == [a EXCEPT !.fail[next_state] = f]
         IN BuildChildrenNoInherit(a1, Append(queue, next_state), current_state, items, k + 1)

\* build with the walk started at the child's own failure link, the value an
\* earlier build left there, not at fail[current_state]
RECURSIVE BuildChildrenFromOwnLink(_, _, _, _, _)
BuildChildrenFromOwnLink(a, queue, current_state, items, k) ==
    IF k > Len(items) THEN [a |-> a, queue |-> queue]
    ELSE LET char == items[k].char
             next_state == items[k].next_state
             fail_state == FailWalk(a, a.fail[next_state], char)
             f == Goto(a, fail_state, char)
             a1 == [a EXCEPT !.fail[next_state] = f]
             a2 == [a1 EXCEPT !.outputs[next_state] = @ \cup a1.outputs[f]]
         IN BuildChildrenFromOwnLink(a2, Append(queue, next_state), current_state, items, k + 1)

\* The inner for loop of build over the items of current_state, from item k.
RECURSIVE BuildChildren(_, _, _, _, _)
BuildChildren(a, queue, current_state, items, k) ==
    IF k > Len(items) THEN [a |-> a, queue |-> queue]
    ELSE LET char == items[k].char
             next_state == items[k].next_state
             fail_state == FailWalk(a, a.fail[current_state], char)
             f == Goto(a, fail_state, char)
             a1 == [a EXCEPT !.fail[next_state] = f]
             a2 == [a1 EXCEPT !.outputs[next_state] = @ \cup a1.outputs[f]]
         IN BuildChildren(a2, Append(queue, next_state), current_state, items, k + 1)

\* while queue
RECURSIVE BuildLoop(_, _)
BuildLoop(a, queue) ==
    IF queue = <<>> THEN a
    ELSE LET current_state == Head(queue)
             r == BuildChildren(a, Tail(queue), current_state,
                                Items(a.transitions[current_state]), 1)
         IN BuildLoop(r.a, r.queue)

\* "Initialize depth 1", then the breadth-first loop.
BuildAutomaton(a) ==
    LET items == Items(a.transitions[0])
        depth1 == {items[k].next_state : k \in 1..Len(items)}
        a0 == [a EXCEPT !.fail = [s \in DOMAIN a.fail |-> IF s \in depth1 THEN 0 ELSE a.fail[s]]]
        queue == [k \in 1..Len(items) |-> items[k].next_state]
    IN BuildLoop(a0, queue)

(***************************************************************************)
(* Word filters (WordFilter, CharType) and _process_word_filters.          *)
(***************************************************************************)
None == <<>>
Some(v) == <<v>>
IsNone(o) == o = <<>>
Value(o) == o[1]

WordFilter(min_length, max_length, exact_length, word_type, label, must_contain, min_occurrences, max_occurrences) ==
    [min_length |-> min_length, max_length |-> max_length,
     exact_length |-> exact_length, word_type |-> word_type, label |-> label,
     must_contain |-> must_contain, min_occurrences |-> min_occurrences,
     max_occurrences |-> max_occurrences]

\* sub in word
Contains(word, sub) ==
    \E p \in 0..(Len(word) - Len(sub)) : Slice(word, p, p + Len(sub)) = sub

\* word.count(sub): non-overlapping occurrences, scanned from the left;
\* the empty string is counted len(word) + 1 times
RECURSIVE CountFrom(_, _, _)
CountFrom(word, sub, p) ==
    IF p + Len(sub) > Len(word) THEN 0
    ELSE IF Slice(word, p, p + Len(sub)) = sub
         THEN 1 + CountFrom(word, sub, p + Len(sub))
         ELSE CountFrom(word, sub, p + 1)

Count(word, sub) == IF Len(sub) = 0 THEN Len(word) + 1 ELSE CountFrom(word, sub, 0)

\* Truthiness of an Optional[list], Optional[dict] or Optional[str]
TruthyList(o) == ~IsNone(o) /\ Len(Value(o)) > 0
TruthyDict(o) == ~IsNone(o) /\ DOMAIN Value(o) # {}
TruthyStr(o) == ~IsNone(o) /\ Value(o) # ""

\* The body of the for loop over the filters up to the label test: TRUE iff
\* no "continue" is taken for this filter.
FilterPasses(word, word_filter) ==
    LET length == Len(word)
    IN /\ ~(~IsNone(word_filter.exact_length) /\ length # Value(word_filter.exact_length))
       /\ ~(~IsNone(word_filter.min_length) /\ length < Value(word_filter.min_length))
       /\ ~(~IsNone(word_filter.max_length) /\ length > Value(word_filter.max_length))
       /\ (word_filter.word_type = "alpha" => StrIsAlpha(word))
       /\ (word_filter.word_type = "digit" => StrIsDigit(word))
       /\ (word_filter.word_type = "alphanumeric" => StrIsAlnum(word))
       /\ (TruthyList(word_filter.must_contain) =>
             ~\E k \in 1..Len(Value(word_filter.must_contain)) :
                 ~Contains(word, Value(word_filter.must_contain)[k]))
       /\ (TruthyDict(word_filter.min_occurrences) =>
             ~\E sub \in DOMAIN Value(word_filter.min_occurrences) :
                 Count(word, sub) < Value(word_filter.min_occurrences)[sub])
       /\ (TruthyDict(word_filter.max_occurrences) =>
             ~\E sub \in DOMAIN Value(word_filter.max_occurrences) :
                 Count(word, sub) > Value(word_filter.max_occurrences)[sub])

\* matching_labels after the for loop over the filters from index k on
RECURSIVE MatchingLabels(_, _, _)
MatchingLabels(word, filters, k) ==
    IF k > Len(filters) THEN <<>>
    ELSE (IF FilterPasses(word, filters[k]) /\ TruthyStr(filters[k].label)
          THEN <<Value(filters[k].label)>> ELSE <<>>)
         \o MatchingLabels(word, filters, k + 1)

WordTypeOf(s) ==
    IF StrIsAlpha(s) THEN WORD_TYPE_ALPHA
    ELSE IF StrIsDigit(s) THEN WORD_TYPE_DIGIT
    ELSE IF StrIsAlnum(s) THEN WORD_TYPE_ALNUM
    ELSE WORD_TYPE_ANY

\* _process_word_filters that returns the word's match alone, the matches
\* found before it dropped
ProcessWordFiltersAlone(txt, start, end, filters, results) ==
    LET word == Slice(txt, start, end)
        matching_labels == MatchingLabels(word, filters, 1)
    IN IF matching_labels # <<>>
       THEN <<[keyword |-> word, start |-> start, end |-> end, length |-> Len(word),
               is_word_start |-> TRUE, is_word_end |-> TRUE,
               match_type |-> MATCH_FILTERED_WORD, word_type |-> WordTypeOf(word),
               weight |-> MATCH_WEIGHTS[MATCH_FILTERED_WORD],
               filter_labels |-> matching_labels]>>
       ELSE results

\* _process_word_filters(text, start, end, word_filters, results): the
\* results list after the call
ProcessWordFilters(txt, start, end, filters, results) ==
    LET word == Slice(txt, start, end)
        matching_labels == MatchingLabels(word, filters, 1)
    IN IF matching_labels # <<>>
       THEN Append(results,
                [keyword |-> word, start |-> start, end |-> end, length |-> Len(word),
                 is_word_start |-> TRUE, is_word_end |-> TRUE,
                 match_type |-> MATCH_FILTERED_WORD, word_type |-> WordTypeOf(word),
                 weight |-> MATCH_WEIGHTS[MATCH_FILTERED_WORD],
                 filter_labels |-> matching_labels])
       ELSE results

(***************************************************************************)
(* AhoCorasick.search.                                                     *)
(***************************************************************************)
\* "for pattern in self.outputs[state]": a set is iterated in an order the
\* hash seed of the process fixes.  The patterns of one output set all end
\* at the same text position, so they differ in length; the two orders
\* modelled are shortest first and longest first.
RECURSIVE SetIterFrom(_, _)
SetIterFrom(S, order) ==
    IF S = {} THEN <<>>
    ELSE LET p == CHOOSE x \in S : \A y \in S :
                     IF order = "short_first" THEN Len(x) <= Len(y) ELSE Len(x) >= Len(y)
         IN <<p>> \o SetIterFrom(S \ {p}, order)

SetIter(S, order) == SetIterFrom(S, order)

\* if word_filters: (None and the empty list are both false)
FiltersGiven(wf) == TruthyList(wf)

\* Step 3: the non-alphanumeric characters of the must_contain substrings
AllowedSpecialChars(wf) ==
    IF ~FiltersGiven(wf) THEN {}
    ELSE LET subs(f) == IF TruthyList(f.must_contain)
                        THEN {Value(f.must_contain)[j] : j \in 1..Len(Value(f.must_contain))}
                        ELSE {}
             special(sub) == {sub[q] : q \in {q \in 1..Len(sub) : ~CharIsAlnum(sub[q])}}
         IN UNION {UNION {special(sub) : sub \in subs(Value(wf)[k])} :
                     k \in 1..Len(Value(wf))}

\* The characters next to the span [start, end) that the classification
\* reads: text[start - 1] unless start == 0, text[end] unless end == len(text).
BoundaryReadsOK(txt, start, end) ==
    /\ (start = 0 \/ PyIndexOK(txt, start - 1))
    /\ (end = Len(txt) \/ PyIndexOK(txt, end))

\* a classification that takes "_" for a word character
IsWordStartUnderscore(txt, start) ==
    (start = 0) \/ ~(CharIsAlnum(PyIndex(txt, start - 1)) \/ PyIndex(txt, start - 1) = "_")

IsWordStart(txt, start) == (start = 0) \/ ~CharIsAlnum(PyIndex(txt, start - 1))
IsWordEnd(txt, end) == (end = Len(txt)) \/ ~CharIsAlnum(PyIndex(txt, end))

MatchTypeOf(is_word_start, is_word_end) ==
    IF is_word_start /\ is_word_end THEN MATCH_FULL_WORD
    ELSE IF is_word_start THEN MATCH_PREFIX
    ELSE IF is_word_end THEN MATCH_SUFFIX
    ELSE MATCH_SUBSTRING

\* The dictionary appended for `pattern` ending at text position i
PatternMatch(txt, pattern, i) ==
    LET start == i - Len(pattern) + 1
        end == i + 1
        is_word_start == IsWordStart(txt, start)
        is_word_end == IsWordEnd(txt, end)
        match_type == MatchTypeOf(is_word_start, is_word_end)
    IN [keyword |-> pattern, start |-> start, end |-> end, length |-> Len(pattern),
        is_word_start |-> is_word_start, is_word_end |-> is_word_end,
        match_type |-> match_type, word_type |-> WordTypeOf(pattern),
        weight |-> MATCH_WEIGHTS[match_type]]

\* "for pattern in self.outputs[state]" at text position i, from the k-th
\* pattern of the iteration on; err is "IndexError" when a boundary read fails
RECURSIVE EmitMatches(_, _, _, _, _)
EmitMatches(txt, pats, i, k, results) ==
    IF k > Len(pats) THEN [results |-> results, err |-> "none"]
    ELSE IF ~BoundaryReadsOK(txt, i - Len(pats[k]) + 1, i + 1)
         THEN [results |-> results, err |-> "IndexError"]
         ELSE EmitMatches(txt, pats, i, k + 1, Append(results, PatternMatch(txt, pats[k], i)))

\* a traversal that falls back to the root instead of following failure links
NextStateNoFail(a, state, char) == Goto(a, state, char)

\* Step 4a: follow failure links, then move on char
NextState(a, state, char) == Goto(a, FailWalk(a, state, char), char)

\* Step 4, one iteration of "for i, char in enumerate(text)": the state, the
\* results and current_word_start after it.  a is the built automaton,
\* order the set iteration order.
ScanStep(a, order, txt, wf, i, state, results, current_word_start) ==
    LET char == txt[i + 1]
        state1 == NextState(a, state, char)
        m == EmitMatches(txt, SetIter(a.outputs[state1], order), i, 1, results)
        is_valid_char == CharIsAlnum(char) \/ char \in AllowedSpecialChars(wf)
        results1 == IF FiltersGiven(wf) /\ ~is_valid_char /\ current_word_start # -1
                    THEN ProcessWordFilters(txt, current_word_start, i, Value(wf), m.results)
                    ELSE m.results
        cws1 == IF ~FiltersGiven(wf) THEN current_word_start
                ELSE IF is_valid_char
                     THEN (IF current_word_start = -1 THEN i ELSE current_word_start)
                     ELSE -1
    IN IF m.err # "none"
       THEN [state |-> state1, results |-> m.results,
             current_word_start |-> current_word_start, err |-> m.err]
       ELSE [state |-> state1, results |-> results1, current_word_start |-> cws1,
             err |-> "none"]

\* search without step 5: a word that reaches the end of the text is dropped
ScanEndSkipped(txt, wf, results, current_word_start) ==
    IF FiltersGiven(wf) /\ current_word_start # -1 THEN results ELSE results

\* Step 5: the word that extends to the end of the text
ScanEnd(txt, wf, results, current_word_start) ==
    IF FiltersGiven(wf) /\ current_word_start # -1
    THEN ProcessWordFilters(txt, current_word_start, Len(txt), Value(wf), results)
    ELSE results

\* Steps 4 to 6: the for loop over the text from position i on, and the
\* trailing word
RECURSIVE ScanFrom(_, _, _, _, _, _, _, _)
ScanFrom(a, order, txt, wf, i, state, results, current_word_start) ==
    IF i >= Len(txt)
    THEN [results |-> ScanEnd(txt, wf, results, current_word_start), err |-> "none"]
    ELSE LET s == ScanStep(a, order, txt, wf, i, state, results, current_word_start)
         IN IF s.err # "none" THEN [results |-> s.results, err |-> s.err]
            ELSE ScanFrom(a, order, txt, wf, i + 1, s.state, s.results,
                          s.current_word_start)

\* Steps 2 to 6 of search on a built automaton
Scan(a, order, txt, wf) == ScanFrom(a, order, txt, wf, 0, 0, <<>>, -1)

(***************************************************************************)
(* AhoCorasick.search_normalized.                                          *)
(***************************************************************************)
\* a sort key without the length
KeyLessStartOnly(m1, m2) == m1.start < m2.start

\* key=lambda x: (x['start'], -x['length'])
KeyLess(m1, m2) ==
    \/ m1.start < m2.start
    \/ (m1.start = m2.start /\ -m1.length < -m2.length)

\* a sort that is not stable: an element goes before the elements of equal key
RECURSIVE InsertSortedUnstable(_, _)
InsertSortedUnstable(sorted, m) ==
    IF sorted = <<>> THEN <<m>>
    ELSE IF ~KeyLess(Head(sorted), m) THEN <<m>> \o sorted
    ELSE <<Head(sorted)>> \o InsertSortedUnstable(Tail(sorted), m)

\* list.sort is stable: insert each element after the elements that do not
\* sort after it
RECURSIVE InsertSorted(_, _)
InsertSorted(sorted, m) ==
    IF sorted = <<>> THEN <<m>>
    ELSE IF KeyLess(m, Head(sorted)) THEN <<m>> \o sorted
    ELSE <<Head(sorted)>> \o InsertSorted(Tail(sorted), m)

RECURSIVE SortMatches(_, _)
SortMatches(matches, k) ==
    IF k = 0 THEN <<>> ELSE InsertSorted(SortMatches(matches, k - 1), matches[k])

\* a greedy loop that compares the end of a match, not its start
RECURSIVE KeepFromByEnd(_, _, _, _)
KeepFromByEnd(matches, k, normalized_matches, last_end_index) ==
    IF k > Len(matches) THEN normalized_matches
    ELSE IF matches[k].end > last_end_index
         THEN KeepFromByEnd(matches, k + 1, Append(normalized_matches, matches[k]),
                            matches[k].end)
         ELSE KeepFromByEnd(matches, k + 1, normalized_matches, last_end_index)

\* The greedy loop from the k-th sorted match on
RECURSIVE KeepFrom(_, _, _, _)
KeepFrom(matches, k, normalized_matches, last_end_index) ==
    IF k > Len(matches) THEN normalized_matches
    ELSE IF matches[k].start >= last_end_index
         THEN KeepFrom(matches, k + 1, Append(normalized_matches, matches[k]), matches[k].end)
         ELSE KeepFrom(matches, k + 1, normalized_matches, last_end_index)

Normalized(matches) == KeepFrom(SortMatches(matches, Len(matches)), 1, <<>>, -1)

(* Library functions the normalizer calls: unicodedata.normalize,          *)
(* bytes.decode, urllib.parse.unquote, re.sub, base64.b64decode.           *)
(***************************************************************************)
\* unicodedata.normalize("NFKC", text): every character decomposed ...
RECURSIVE NfkcDecompose(_)
NfkcDecompose(txt) ==
    IF txt = <<>> THEN <<>> ELSE NfkcChar(Head(txt)) \o NfkcDecompose(Tail(txt))

\* ... and then a character and the combining mark after it composed where
\* a composed character exists
RECURSIVE NfkcCompose(_)
NfkcCompose(txt) ==
    IF Len(txt) < 2 THEN txt
    ELSE IF txt[1] = "h" /\ txt[2] = CombiningMacronBelow
         THEN <<LatinSmallHLineBelow>> \o NfkcCompose(SubSeq(txt, 3, Len(txt)))
    ELSE <<txt[1]>> \o NfkcCompose(Tail(txt))

Nfkc(txt) == NfkcCompose(NfkcDecompose(txt))

\* str.lower
Lower(txt) == [k \in 1..Len(txt) |-> LowerChar(txt[k])]

\* the length of the UTF-8 sequence a lead byte announces, 0 for no lead byte
Utf8Need(b) ==
    IF b >= 194 /\ b <= 223 THEN 2
    ELSE IF b >= 224 /\ b <= 239 THEN 3
    ELSE IF b >= 240 /\ b <= 244 THEN 4
    ELSE 0

\* is bytes[p + k] a continuation byte the lead byte bytes[p] allows there
Utf8Cont(bytes, p, k) ==
    /\ p + k <= Len(bytes)
    /\ bytes[p + k] >= 128 /\ bytes[p + k] <= 191
    /\ k = 1 => /\ (bytes[p] = 224 => bytes[p + 1] >= 160)
                /\ (bytes[p] = 237 => bytes[p + 1] <= 159)
                /\ (bytes[p] = 240 => bytes[p + 1] >= 144)
                /\ (bytes[p] = 244 => bytes[p + 1] <= 143)

\* how many bytes from p on are a prefix of a well-formed sequence
Utf8Good(bytes, p) ==
    LET n == Utf8Need(bytes[p])
        ok(k) == \A j \in 1..k : Utf8Cont(bytes, p, j)
    IN IF n = 0 THEN 0
       ELSE 1 + Cardinality({k \in 1..(n - 1) : ok(k)})

\* the character a well-formed sequence encodes
Utf8Char(seq) ==
    IF seq = <<195, 169>> THEN LatinSmallEAcute
    ELSE IF seq = <<194, 160>> THEN NoBreakSpace
    ELSE IF seq = <<239, 188, 161>> THEN FullwidthUpperA
    ELSE IF seq = <<239, 189, 129>> THEN FullwidthLowerA
    ELSE IF seq = <<239, 172, 129>> THEN LigatureFi
    ELSE IF seq = <<239, 191, 189>> THEN ReplacementChar
    ELSE IF seq = <<204, 177>> THEN CombiningMacronBelow
    ELSE IF seq = <<225, 186, 150>> THEN LatinSmallHLineBelow
    ELSE OtherNonAscii

\* bytes.decode("utf-8", errors=mode) of a list of byte values.  A byte
\* below 128 is its character; a well-formed multi-byte sequence is one
\* character outside ASCII; an ill-formed sequence is dropped ("ignore") or
\* becomes one replacement character ("replace").
RECURSIVE Utf8Decode(_, _, _)
Utf8Decode(bytes, p, mode) ==
    IF p > Len(bytes) THEN <<>>
    ELSE IF bytes[p] < 128 THEN <<Chr(bytes[p])>> \o Utf8Decode(bytes, p + 1, mode)
    ELSE LET n == Utf8Need(bytes[p])
             good == Utf8Good(bytes, p)
             bad == IF mode = "replace" THEN <<ReplacementChar>> ELSE <<>>
         IN IF n = 0 THEN bad \o Utf8Decode(bytes, p + 1, mode)
            ELSE IF good = n
                 THEN <<Utf8Char([k \in 1..n |-> bytes[p + k - 1]])>>
                      \o Utf8Decode(bytes, p + n, mode)
            ELSE bad \o Utf8Decode(bytes, p + good, mode)

\* the hexadecimal digits, the value v at index v + 1 (upper case at v + 17)
HexDigits ==
    <<"0", "1", "2", "3", "4", "5", "6", "7", "8", "9", "a", "b", "c", "d", "e", "f",
      "0", "1", "2", "3", "4", "5", "6", "7", "8", "9", "A", "B", "C", "D", "E", "F">>

IsHex(c) == \E v \in 1..32 : HexDigits[v] = c
HexValue(c) == ((CHOOSE v \in 1..32 : HexDigits[v] = c) - 1) % 16

\* urllib.parse.unquote_to_bytes of an ASCII string, from position p on: a
\* "%" followed by two hexadecimal digits is the byte they name
RECURSIVE UnquoteToBytes(_, _)
UnquoteToBytes(chunk, p) ==
    IF p > Len(chunk) THEN <<>>
    ELSE IF /\ chunk[p] = "%"
            /\ p + 2 <= Len(chunk)
            /\ IsHex(chunk[p + 1])
            /\ IsHex(chunk[p + 2])
         THEN <<16 * HexValue(chunk[p + 1]) + HexValue(chunk[p + 2])>>
              \o UnquoteToBytes(chunk, p + 3)
    ELSE <<Ord(chunk[p])>> \o UnquoteToBytes(chunk, p + 1)

\* the end (exclusive, 1-based) of the maximal run of ASCII characters at p
RECURSIVE AsciiRunEnd(_, _)
AsciiRunEnd(txt, p) ==
    IF p > Len(txt) \/ ~IsAscii(txt[p]) THEN p ELSE AsciiRunEnd(txt, p + 1)

\* the loop of unquote over the pieces of _asciire.split, from position p on
RECURSIVE UnquoteFrom(_, _)
UnquoteFrom(txt, p) ==
    IF p > Len(txt) THEN <<>>
    ELSE IF ~IsAscii(txt[p]) THEN <<txt[p]>> \o UnquoteFrom(txt, p + 1)
    ELSE LET q == AsciiRunEnd(txt, p)
         IN Utf8Decode(UnquoteToBytes(Slice(txt, p - 1, q - 1), 1), 1, "replace")
            \o UnquoteFrom(txt, q)

\* urllib.parse.unquote(text)
Unquote(txt) ==
    IF \A k \in 1..Len(txt) : txt[k] # "%" THEN txt ELSE UnquoteFrom(txt, 1)

\* re.sub(r"\s+", "", text)
RemoveSpaces(txt) == SelectSeq(txt, LAMBDA c : ~IsSpace(c))

\* the character classes \s ("whitespace") and [_\-#] ("separators")
InClass(class, c) == IF class = "whitespace" THEN IsSpace(c) ELSE c \in {"_", "-", "#"}

\* re.sub(class+, " ", text) from position p on: each maximal run of
\* characters of the class becomes one space
RECURSIVE SubRuns(_, _, _)
SubRuns(class, txt, p) ==
    IF p > Len(txt) THEN <<>>
    ELSE IF ~InClass(class, txt[p]) THEN <<txt[p]>> \o SubRuns(class, txt, p + 1)
    ELSE IF p > 1 /\ InClass(class, txt[p - 1]) THEN SubRuns(class, txt, p + 1)
    ELSE <<" ">> \o SubRuns(class, txt, p + 1)

\* str.strip()
RECURSIVE Strip(_)
Strip(txt) ==
    IF txt = <<>> THEN txt
    ELSE IF IsSpace(Head(txt)) THEN Strip(Tail(txt))
    ELSE IF IsSpace(txt[Len(txt)]) THEN Strip(SubSeq(txt, 1, Len(txt) - 1))
    ELSE txt

\* the Base64 digits, the value v at index v + 1
Base64Digits ==
    <<
     "A", "B", "C", "D", "E", "F", "G", "H", "I", "J", "K", "L", "M", "N",
     "O", "P", "Q", "R", "S", "T", "U", "V", "W", "X", "Y", "Z", "a", "b",
     "c", "d", "e", "f", "g", "h", "i", "j", "k", "l", "m", "n", "o", "p",
     "q", "r", "s", "t", "u", "v", "w", "x", "y", "z", "0", "1", "2", "3",
     "4", "5", "6", "7", "8", "9", "+", "/"
    >>

IsBase64Digit(c) == \E v \in 1..64 : Base64Digits[v] = c
Base64Value(c) == (CHOOSE v \in 1..64 : Base64Digits[v] = c) - 1

\* the bytes that a run of 6-bit values encodes: every value but the first
\* of its group of four completes one byte
BytesOfValues(vals) ==
    LET byte(k) ==
            IF (k - 1) % 4 = 1 THEN (vals[k - 1] * 4 + vals[k] \div 16) % 256
            ELSE IF (k - 1) % 4 = 2 THEN (vals[k - 1] % 16) * 16 + vals[k] \div 4
            ELSE (vals[k - 1] % 4) * 64 + vals[k]
        at == SelectSeq([k \in 1..Len(vals) |-> k], LAMBDA k : (k - 1) % 4 # 0)
    IN [j \in 1..Len(at) |-> byte(at[j])]

\* the loop of binascii.a2b_base64(data, strict_mode=True) from position i
\* on; vals are the digits read so far (quad_pos is their number modulo 4).
\* The result is the bytes, or the error the call raises.
RECURSIVE A2bBase64(_, _, _, _, _)
A2bBase64(data, i, vals, pads, padding_started) ==
    LET quad_pos == Len(vals) % 4
        raised == [bytes |-> <<>>, err |-> "binascii.Error"]
        done == [bytes |-> BytesOfValues(vals), err |-> "none"]
    IN IF i > Len(data) THEN (IF quad_pos # 0 THEN raised ELSE done)
       ELSE IF data[i] = "="
            THEN IF quad_pos >= 2 /\ quad_pos + pads + 1 >= 4
                 THEN (IF i < Len(data) THEN raised ELSE done)
                 ELSE A2bBase64(data, i + 1, vals,
                                IF quad_pos >= 2 THEN pads + 1 ELSE pads, TRUE)
       ELSE IF ~IsBase64Digit(data[i]) THEN raised
       ELSE IF padding_started THEN raised
       ELSE A2bBase64(data, i + 1, Append(vals, Base64Value(data[i])), 0, FALSE)

\* base64.b64decode(s, validate=True) of a str: the str must be ASCII, and
\* strict mode allows no leading padding
B64Decode(s) ==
    IF \E k \in 1..Len(s) : ~IsAscii(s[k]) THEN [bytes |-> <<>>, err |-> "ValueError"]
    ELSE IF Len(s) > 0 /\ s[1] = "=" THEN [bytes |-> <<>>, err |-> "binascii.Error"]
    ELSE A2bBase64(s, 1, <<>>, 0, FALSE)

(***************************************************************************)
(* base64_helpers.py: BASE64_CHARS, shannon_entropy and                    *)
(* find_base64_like_spans.                                                 *)
(***************************************************************************)
BASE64_CHARS == {Base64Digits[v] : v \in 1..64} \cup {"="}

\* c * log2(c) in ten-thousandths, for c = 1 .. 24
CLog2C ==
    <<0, 20000, 47549, 80000, 116096, 155098, 196515, 240000, 285293, 332193,
      380537, 430196, 481057, 533030, 586034, 640000, 694869, 750587, 807106,
      864386, 922387, 981075, 1040419, 1100391>>

\* shannon_entropy(s) in ten-thousandths of a bit, rounded:
\* -sum (c/n) log2 (c/n) = (n log2 n - sum c log2 c) / n
shannon_entropy(s) ==
    IF s = <<>> THEN 0
    ELSE LET length == Len(s)
             freq(ch) == Cardinality({k \in 1..length : s[k] = ch})
             chars == {s[k] : k \in 1..length}
             RECURSIVE Sum(_)
             Sum(S) == IF S = {} THEN 0
                       ELSE LET ch == CHOOSE x \in S : TRUE
                            IN CLog2C[freq(ch)] + Sum(S \ {ch})
         IN (2 * (CLog2C[length] - Sum(chars)) + length) \div (2 * length)

\* the for loop of find_base64_like_spans without the test after it, which
\* appends the run that reaches the end of the text
RECURSIVE SpansFromNoTail(_, _, _, _, _)
SpansFromNoTail(txt, min_len, i, start, spans) ==
    IF i >= Len(txt) THEN spans
    ELSE IF txt[i + 1] \in BASE64_CHARS
         THEN SpansFromNoTail(txt, min_len, i + 1, IF start = -1 THEN i ELSE start, spans)
         ELSE SpansFromNoTail(txt, min_len, i + 1, -1,
                              IF start # -1 /\ (i - start) >= min_len
                              THEN Append(spans, <<start, i>>) ELSE spans)

\* the for loop of find_base64_like_spans from index i on; start is -1 for None
RECURSIVE SpansFrom(_, _, _, _, _)
SpansFrom(txt, min_len, i, start, spans) ==
    IF i >= Len(txt)
    THEN IF start # -1 /\ (Len(txt) - start) >= min_len
         THEN Append(spans, <<start, Len(txt)>>)
         ELSE spans
    ELSE IF txt[i + 1] \in BASE64_CHARS
         THEN SpansFrom(txt, min_len, i + 1, IF start = -1 THEN i ELSE start, spans)
         ELSE SpansFrom(txt, min_len, i + 1, -1,
                        IF start # -1 /\ (i - start) >= min_len
                        THEN Append(spans, <<start, i>>) ELSE spans)

find_base64_like_spans(txt, min_len) == SpansFrom(txt, min_len, 0, -1, <<>>)

(***************************************************************************)
(* Normalizer.__init__: the configuration and its defaults.                *)
(***************************************************************************)
NormalizerConfig(max_decode_depth, enable_base64, enable_url_decode, enable_unicode_norm, collapse_whitespace, lowercase, enable_substring_base64, min_base64_substring_len, base64_entropy_threshold, max_base64_substrings, enable_separator_normalization) ==
    [max_decode_depth |-> max_decode_depth, enable_base64 |-> enable_base64,
     enable_url_decode |-> enable_url_decode, enable_unicode_norm |-> enable_unicode_norm,
     collapse_whitespace |-> collapse_whitespace, lowercase |-> lowercase,
     enable_substring_base64 |-> enable_substring_base64,
     min_base64_substring_len |-> min_base64_substring_len,
     base64_entropy_threshold |-> base64_entropy_threshold,
     max_base64_substrings |-> max_base64_substrings,
     enable_separator_normalization |-> enable_separator_normalization]

\* base64_entropy_threshold is in hundredths of a bit (2.5 is 250)
DefaultConfig == NormalizerConfig(2, TRUE, TRUE, TRUE, TRUE, FALSE, TRUE, 8, 250, 10, FALSE)

(***************************************************************************)
(* Normalizer: _safe_base64_decode, _is_mostly_printable,                  *)
(* _recursive_base64_decode, _decode_base64_substrings and normalize.      *)
(* A call returns a record whose err is the exception it raised ("none"    *)
(* when it returned).                                                      *)
(***************************************************************************)
\* the body of the try block of _safe_base64_decode
SafeBase64DecodeTry(txt) ==
    LET compact == RemoveSpaces(txt)
        decoded_bytes == B64Decode(compact)
    IN IF Len(compact) % 4 # 0 THEN [value |-> None, err |-> "none"]
       ELSE IF decoded_bytes.err # "none" THEN [value |-> None, err |-> decoded_bytes.err]
       ELSE [value |-> Some(Utf8Decode(decoded_bytes.bytes, 1, "ignore")), err |-> "none"]

\* _safe_base64_decode without the except clause
SafeBase64DecodeUncaught(txt) == SafeBase64DecodeTry(txt)

\* _safe_base64_decode(text): "except Exception: return None"
SafeBase64Decode(txt) ==
    LET tried == SafeBase64DecodeTry(txt)
    IN IF tried.err # "none" THEN [value |-> None, err |-> "none"] ELSE tried

\* _is_mostly_printable(text), threshold 0.9
IsMostlyPrintable(txt) ==
    IF txt = <<>> THEN FALSE
    ELSE LET printable_count == Cardinality({k \in 1..Len(txt) : IsPrintable(txt[k])})
         IN printable_count * 10 >= 9 * Len(txt)

\* "base64_decode_depth_{depth+1}"
DepthStepNames ==
    <<"base64_decode_depth_1", "base64_decode_depth_2", "base64_decode_depth_3",
      "base64_decode_depth_4">>

\* a loop that runs once more than max_decode_depth
RECURSIVE RecursiveFromOneMore(_, _, _, _)
RecursiveFromOneMore(cfg, depth, out, steps) ==
    IF depth > cfg.max_decode_depth THEN [out |-> out, steps |-> steps, err |-> "none"]
    ELSE LET candidate == SafeBase64Decode(out)
         IN IF candidate.err # "none"
            THEN [out |-> out, steps |-> steps, err |-> candidate.err]
            ELSE IF IsNone(candidate.value)
                 THEN [out |-> out, steps |-> steps, err |-> "none"]
            ELSE IF IsMostlyPrintable(Value(candidate.value))
                 THEN RecursiveFromOneMore(cfg, depth + 1, Value(candidate.value),
                                           Append(steps, DepthStepNames[depth + 1]))
            ELSE [out |-> out, steps |-> steps, err |-> "none"]

\* the for loop of _recursive_base64_decode from `depth` on
RECURSIVE RecursiveFrom(_, _, _, _)
RecursiveFrom(cfg, depth, out, steps) ==
    IF depth >= cfg.max_decode_depth THEN [out |-> out, steps |-> steps, err |-> "none"]
    ELSE LET candidate == SafeBase64Decode(out)
         IN IF candidate.err # "none"
            THEN [out |-> out, steps |-> steps, err |-> candidate.err]
            ELSE IF IsNone(candidate.value)
                 THEN [out |-> out, steps |-> steps, err |-> "none"]
            ELSE IF IsMostlyPrintable(Value(candidate.value))
                 THEN RecursiveFrom(cfg, depth + 1, Value(candidate.value),
                                    Append(steps, DepthStepNames[depth + 1]))
            ELSE [out |-> out, steps |-> steps, err |-> "none"]

\* _recursive_base64_decode(text)
RecursiveBase64Decode(cfg, txt) == RecursiveFrom(cfg, 0, txt, <<>>)

\* seq[:n]
Prefix(seq, n) ==
    IF n >= 0 THEN SubSeq(seq, 1, IF n < Len(seq) THEN n ELSE Len(seq))
    ELSE SubSeq(seq, 1, Len(seq) + n)

\* the loop without the entropy gate
RECURSIVE SubstringsFromNoEntropy(_, _, _, _, _, _, _)
SubstringsFromNoEntropy(cfg, out, spans, k, new_text, last, steps) ==
    IF k > Len(spans)
    THEN [out |-> IF steps = <<>> THEN out ELSE new_text \o Slice(out, last, Len(out)),
          steps |-> steps, err |-> "none"]
    ELSE LET start == spans[k][1]
             end == spans[k][2]
             candidate == Slice(out, start, end)
             decoded == SafeBase64Decode(candidate)
             skip == SubstringsFromNoEntropy(cfg, out, spans, k + 1, new_text, last, steps)
         IN IF decoded.err # "none"
            THEN [out |-> out, steps |-> steps, err |-> decoded.err]
            ELSE IF IsNone(decoded.value) \/ Value(decoded.value) = <<>> THEN skip
            ELSE IF ~IsMostlyPrintable(Value(decoded.value)) THEN skip
            ELSE SubstringsFromNoEntropy(cfg, out, spans, k + 1,
                                         new_text \o Slice(out, last, start) \o Value(decoded.value),
                                         end, Append(steps, "base64_substring_decode"))

\* the for loop of _decode_base64_substrings from the k-th span on
RECURSIVE SubstringsFrom(_, _, _, _, _, _, _)
SubstringsFrom(cfg, out, spans, k, new_text, last, steps) ==
    IF k > Len(spans)
    THEN [out |-> IF steps = <<>> THEN out ELSE new_text \o Slice(out, last, Len(out)),
          steps |-> steps, err |-> "none"]
    ELSE LET start == spans[k][1]
             end == spans[k][2]
             candidate == Slice(out, start, end)
             decoded == SafeBase64Decode(candidate)
             skip == SubstringsFrom(cfg, out, spans, k + 1, new_text, last, steps)
         IN IF shannon_entropy(candidate) < cfg.base64_entropy_threshold * 100 THEN skip
            ELSE IF decoded.err # "none"
                 THEN [out |-> out, steps |-> steps, err |-> decoded.err]
            ELSE IF IsNone(decoded.value) \/ Value(decoded.value) = <<>> THEN skip
            ELSE IF ~IsMostlyPrintable(Value(decoded.value)) THEN skip
            ELSE SubstringsFrom(cfg, out, spans, k + 1,
                                new_text \o Slice(out, last, start) \o Value(decoded.value),
                                end, Append(steps, "base64_substring_decode"))

\* _decode_base64_substrings without "spans = spans[: self.max_base64_substrings]"
DecodeBase64SubstringsUncapped(cfg, txt) ==
    LET spans == find_base64_like_spans(txt, cfg.min_base64_substring_len)
    IN IF spans = <<>> THEN [out |-> txt, steps |-> <<>>, err |-> "none"]
       ELSE SubstringsFrom(cfg, txt, spans, 1, <<>>, 0, <<>>)

\* _decode_base64_substrings(text)
DecodeBase64Substrings(cfg, txt) ==
    LET spans == find_base64_like_spans(txt, cfg.min_base64_substring_len)
    IN IF spans = <<>> THEN [out |-> txt, steps |-> <<>>, err |-> "none"]
       ELSE SubstringsFrom(cfg, txt, Prefix(spans, cfg.max_base64_substrings), 1, <<>>, 0,
                           <<>>)

\* a stage that records `name` whenever it is enabled, changed or not
StageAlwaysRecords(enabled, new_out, name, r) ==
    IF enabled
    THEN [out |-> new_out, steps |-> Append(r.steps, name), err |-> r.err]
    ELSE r

\* a stage of normalize that records `name` when it changed the text
Stage(enabled, new_out, name, r) ==
    IF enabled /\ new_out # r.out
    THEN [out |-> new_out, steps |-> Append(r.steps, name), err |-> r.err]
    ELSE r

\* a decode stage of normalize, which extends the steps by the helper's
DecodeStage(enabled, d, r) ==
    IF ~enabled THEN r
    ELSE [out |-> d.out, steps |-> r.steps \o d.steps, err |-> d.err]

\* the k-th stage of normalize applied to the text and the steps so far
NormalizeStage(cfg, k, r) ==
    IF k = 1 THEN Stage(cfg.enable_unicode_norm, Nfkc(r.out), "unicode_nfkc", r)
    ELSE IF k = 2 THEN Stage(cfg.enable_url_decode, Unquote(r.out), "url_decode", r)
    ELSE IF k = 3 THEN DecodeStage(cfg.enable_base64 /\ cfg.enable_substring_base64,
                                   DecodeBase64Substrings(cfg, r.out), r)
    ELSE IF k = 4 THEN DecodeStage(cfg.enable_base64, RecursiveBase64Decode(cfg, r.out), r)
    ELSE IF k = 5 THEN Stage(cfg.enable_separator_normalization,
                             SubRuns("separators", r.out, 1), "normalize_separators", r)
    ELSE IF k = 6 THEN Stage(cfg.collapse_whitespace,
                             Strip(SubRuns("whitespace", r.out, 1)),
                             "collapse_whitespace", r)
    ELSE Stage(cfg.lowercase, Lower(r.out), "lowercase", r)

\* the stages of normalize run last to first: lowercasing before decoding
RECURSIVE NormalizeBackwards(_, _, _)
NormalizeBackwards(cfg, k, r) ==
    IF k > 7 \/ r.err # "none" THEN r
    ELSE CHOOSE result \in {NormalizeBackwards(cfg, k + 1, next) :
                               next \in {NormalizeStage(cfg, 8 - k, r)}} : TRUE

\* the stages of normalize from the k-th on, each given the value the one
\* before it produced; an exception ends the call
RECURSIVE NormalizeFrom(_, _, _)
NormalizeFrom(cfg, k, r) ==
    IF k > 7 \/ r.err # "none" THEN r
    ELSE CHOOSE result \in {NormalizeFrom(cfg, k + 1, next) :
                               next \in {NormalizeStage(cfg, k, r)}} : TRUE

\* normalize(text): (out, steps), or the exception raised
Normalize(cfg, txt) == NormalizeFrom(cfg, 1, [out |-> txt, steps |-> <<>>, err |-> "none"])

(***************************************************************************)
(* regex_engine.py: RegexRule, RegexEngine.__init__ and RegexEngine.run.   *)
(* A pattern of the model is built from literal characters, ".", "\d" and  *)
(* escaped punctuation, each possibly repeated by "{n}" with one digit n;  *)
(* a pattern with an unclosed "(" or "[", a stray ")", a leading repeat or *)
(* a trailing backslash does not compile.                                  *)
(* Confidence is in tenths (1.0 is 10).                                    *)
(***************************************************************************)
IGNORECASE == 2

RegexRule(id, pattern, flags, entity_type, confidence) ==
    [id |-> id, pattern |-> pattern, flags |-> flags, entity_type |-> entity_type,
     confidence |-> confidence]

Backslash == Chr(92)
RegexSpecials == {".", "^", "$", "*", "+", "?", "{", "}", "[", "]", Backslash, "|", "(", ")"}

\* the parse of re.compile(pattern, flags) from position p on: the atoms of
\* the pattern, or the re.error raised
RECURSIVE ParseFrom(_, _, _)
ParseFrom(pattern, p, atoms) ==
    LET failed == [atoms |-> <<>>, err |-> "re.error"]
        closes(c) == \E q \in (p + 1)..Len(pattern) : pattern[q] = c
        count(n) == IF /\ p + n + 2 <= Len(pattern)
                       /\ pattern[p + n] = "{"
                       /\ pattern[p + n + 1] \in DigitChars
                       /\ pattern[p + n + 2] = "}"
                    THEN Ord(pattern[p + n + 1]) - 48
                    ELSE -1
        with(atom, n) ==
            IF count(n) >= 0
            THEN ParseFrom(pattern, p + n + 3, atoms \o [j \in 1..count(n) |-> atom])
            ELSE ParseFrom(pattern, p + n, Append(atoms, atom))
    IN IF p > Len(pattern) THEN [atoms |-> atoms, err |-> "none"]
       ELSE IF pattern[p] = Backslash
            THEN IF p = Len(pattern) THEN failed
                 ELSE IF pattern[p + 1] = "d" THEN with([kind |-> "digit", ch |-> "d"], 2)
                 ELSE IF ~CharIsAlnum(pattern[p + 1])
                      THEN with([kind |-> "literal", ch |-> pattern[p + 1]], 2)
                 ELSE failed
       ELSE IF pattern[p] = "." THEN with([kind |-> "any", ch |-> "."], 1)
       ELSE IF pattern[p] = "(" /\ ~closes(")") THEN failed
       ELSE IF pattern[p] = "[" /\ ~closes("]") THEN failed
       ELSE IF pattern[p] = ")" THEN failed
       ELSE IF pattern[p] \in {"*", "+", "?"} /\ p = 1 THEN failed
       ELSE IF pattern[p] \in RegexSpecials THEN [atoms |-> <<>>, err |-> "unmodelled"]
       ELSE with([kind |-> "literal", ch |-> pattern[p]], 1)

\* re.compile(rule.pattern, rule.flags)
Compile(pattern, flags) ==
    LET parsed == ParseFrom(pattern, 1, <<>>)
    IN [atoms |-> parsed.atoms, flags |-> flags, err |-> parsed.err]

\* does one atom of a compiled pattern match the character c
AtomMatches(atom, flags, c) ==
    IF atom.kind = "digit" THEN c \in DigitChars
    ELSE IF atom.kind = "any" THEN c # Chr(10)
    ELSE IF flags = IGNORECASE THEN LowerChar(c) = LowerChar(atom.ch)
    ELSE c = atom.ch

\* does the compiled pattern match the text at offset p
MatchesAt(compiled, txt, p) ==
    /\ p + Len(compiled.atoms) <= Len(txt)
    /\ \A k \in 1..Len(compiled.atoms) :
         AtomMatches(compiled.atoms[k], compiled.flags, txt[p + k])

\* compiled.finditer(text) from offset p on: the spans of the leftmost
\* non-overlapping matches
RECURSIVE FindIter(_, _, _)
FindIter(compiled, txt, p) ==
    IF p > Len(txt) THEN <<>>
    ELSE IF MatchesAt(compiled, txt, p)
         THEN <<(<<p, p + Len(compiled.atoms)>>)>>
              \o FindIter(compiled, txt,
                          IF Len(compiled.atoms) = 0 THEN p + 1 ELSE p + Len(compiled.atoms))
    ELSE FindIter(compiled, txt, p + 1)

\* RegexMatch(...) with "UNKNOWN" for every rule
RegexMatchUnknownType(rule, txt, m) ==
    [rule_id |-> rule.id, entity_type |-> "UNKNOWN",
     start |-> m[1], end |-> m[2], text |-> Slice(txt, m[1], m[2]),
     confidence |-> rule.confidence]

\* RegexMatch(...) for one match of one rule
RegexMatch(rule, txt, m) ==
    [rule_id |-> rule.id,
     entity_type |-> IF TruthyStr(rule.entity_type) THEN Value(rule.entity_type)
                     ELSE "UNKNOWN",
     start |-> m[1], end |-> m[2], text |-> Slice(txt, m[1], m[2]),
     confidence |-> rule.confidence]

\* RegexEngine.__init__(rules) leaving out the rules whose pattern does not
\* compile
RegexEngineInitSkipping(rule_list) ==
    LET compiled(k) == Compile(rule_list[k].pattern, rule_list[k].flags)
        good == SelectSeq([k \in 1..Len(rule_list) |-> k],
                          LAMBDA k : compiled(k).err = "none")
    IN [rules |-> [j \in 1..Len(good) |-> <<rule_list[good[j]], compiled(good[j])>>],
        err |-> "none"]

\* RegexEngine.__init__(rules): the list of (rule, compiled) pairs, or the
\* error of the first pattern that does not compile
RegexEngineInit(rule_list) ==
    LET compiled(k) == Compile(rule_list[k].pattern, rule_list[k].flags)
        bad == {k \in 1..Len(rule_list) : compiled(k).err # "none"}
    IN IF bad # {}
       THEN [rules |-> <<>>, err |-> compiled(CHOOSE k \in bad : \A j \in bad : k <= j).err]
       ELSE [rules |-> [k \in 1..Len(rule_list) |-> <<rule_list[k], compiled(k)>>],
             err |-> "none"]

\* the outer loop of run putting the matches of each rule before those of
\* the rules already run
RECURSIVE RunFromPrepending(_, _, _, _)
RunFromPrepending(compiled_rules, txt, k, results) ==
    IF k > Len(compiled_rules) THEN results
    ELSE LET rule == compiled_rules[k][1]
             found == FindIter(compiled_rules[k][2], txt, 0)
         IN RunFromPrepending(compiled_rules, txt, k + 1,
                [j \in 1..Len(found) |-> RegexMatch(rule, txt, found[j])] \o results)

\* the outer loop of run from the k-th compiled rule on
RECURSIVE RunFrom(_, _, _, _)
RunFrom(compiled_rules, txt, k, results) ==
    IF k > Len(compiled_rules) THEN results
    ELSE LET rule == compiled_rules[k][1]
             found == FindIter(compiled_rules[k][2], txt, 0)
         IN RunFrom(compiled_rules, txt, k + 1,
                    results \o [j \in 1..Len(found) |-> RegexMatch(rule, txt, found[j])])

\* RegexEngine.run(text)
Run(compiled_rules, txt) == RunFrom(compiled_rules, txt, 1, <<>>)

(***************************************************************************)
(* Inputs of the automaton's operations.                                   *)
(***************************************************************************)
\* Every text over h, e and _ up to the bound, and the texts around "she"
ExampleTexts ==
    {<<"s", "h", "e">>, <<"_", "s", "h", "e">>, <<"s", "h", "e", "_">>,
     <<"e", "s", "h", "e">>}

Texts == StringsUpTo({"h", "e", "_"}, MaxTextLen) \cup ExampleTexts

PatternPool ==
    {<<>>, <<"e">>, <<"h", "e">>, <<"s", "h", "e">>, <<"e", "e">>, <<"h", "e", "_">>}

\* Filters of the scans: an unlabelled length filter, a labelled alphabetic
\* filter, and one whose must_contain whitelists "_"
LengthFilter == WordFilter(Some(2), None, None, "any", None, None, None, None)
AlphaFilter == WordFilter(None, Some(3), None, "alpha", Some("word"), None, None, None)
SnakeFilter ==
    WordFilter(None, None, None, "any", Some("snake"), Some(<<(<<"_">>)>>), None, None)

FilterArgs ==
    {None, Some(<<>>), Some(<<AlphaFilter>>), Some(<<LengthFilter, SnakeFilter, AlphaFilter>>)}

(***************************************************************************)
(* The automaton's operations as actions.                                  *)
(***************************************************************************)
Self == Automaton(transitions, outputs, fail)

SetSelf(a) ==
    /\ transitions' = a.transitions
    /\ outputs' = a.outputs
    /\ fail' = a.fail

\* No call made yet, no scan in progress
Idle ==
    /\ span = <<0, 0>>
    /\ threads = <<>>
    /\ op = "init"
    /\ ret = <<>>
    /\ err = "none"

\* AhoCorasick()
Constructed ==
    /\ transitions = NewAutomaton.transitions
    /\ outputs = NewAutomaton.outputs
    /\ fail = NewAutomaton.fail
    /\ is_built = FALSE

InitAC ==
    /\ Constructed
    /\ Unloaded
    /\ set_order \in {"short_first", "long_first"}
    /\ added = {}
    /\ text \in Texts
    /\ word_filters \in FilterArgs
    /\ config = DefaultConfig
    /\ rules = <<>>
    /\ Idle

\* add_pattern without the is_built test
AddPatternUnguarded(pattern) ==
    /\ op' = "add_pattern"
    /\ ret' = <<>>
    /\ Cardinality(added \cup {pattern}) <= MaxPatterns
    /\ err' = "none"
    /\ SetSelf(InsertPattern(Self, pattern))
    /\ added' = added \cup {pattern}
    /\ UNCHANGED <<is_built, env, span, threads, registry>>

\* add_pattern(pattern)
AddPattern(pattern) ==
    /\ op' = "add_pattern"
    /\ ret' = <<>>
    /\ IF is_built
       THEN /\ err' = "RuntimeError"
            /\ UNCHANGED <<tables, added>>
       ELSE /\ Cardinality(added \cup {pattern}) <= MaxPatterns
            /\ err' = "none"
            /\ SetSelf(InsertPattern(Self, pattern))
            /\ added' = added \cup {pattern}
            /\ UNCHANGED is_built
    /\ UNCHANGED <<env, span, threads, registry>>

\* build()
Build ==
    /\ op' = "build"
    /\ ret' = <<>>
    /\ err' = "none"
    /\ SetSelf(BuildAutomaton(Self))
    /\ is_built' = TRUE
    /\ UNCHANGED <<env, added, span, threads, registry>>

\* search without step 1: the scan runs on the tables as they are
EnsuredUnbuilt == Self

\* Step 1 of search: the automaton after "if not self.is_built: self.build()"
Ensured == IF is_built THEN Self ELSE BuildAutomaton(Self)

\* search(text, word_filters)
Search ==
    LET r == Scan(Ensured, set_order, text, word_filters)
    IN /\ op' = "search"
       /\ ret' = r.results
       /\ err' = r.err
       /\ SetSelf(Ensured)
       /\ is_built' = TRUE
       /\ UNCHANGED <<env, added, span, threads, registry>>

\* search_normalized(text, word_filters)
SearchNormalized ==
    LET r == Scan(Ensured, set_order, text, word_filters)
    IN /\ op' = "search_normalized"
       /\ ret' = IF r.err = "none" THEN Normalized(r.results) ELSE <<>>
       /\ err' = r.err
       /\ SetSelf(Ensured)
       /\ is_built' = TRUE
       /\ UNCHANGED <<env, added, span, threads, registry>>

NextAC ==
    \/ \E pattern \in PatternPool : AddPattern(pattern)
    \/ Build
    \/ Search
    \/ SearchNormalized

SpecAC == InitAC /\ [][NextAC]_vars

(***************************************************************************)
(* Properties of the automaton.                                            *)
(***************************************************************************)
She == <<"s", "h", "e">>
He == <<"h", "e">>

\* P occurs in T at offset s: T[s:s+len(P)] == P
Occurs(P, T, s) == s + Len(P) <= Len(T) /\ Slice(T, s, s + Len(P)) = P

\* The positions of a result list that hold pattern matches
PatternIdx(r) == {k \in 1..Len(r) : r[k].match_type # MATCH_FILTERED_WORD}

\* What search(text, word_filters) returns in the current (built) state
Found == Scan(Self, set_order, text, word_filters).results

\* C1: add_pattern on a built automaton raises RuntimeError, whatever the
\* pattern, and leaves transitions, fail, outputs and is_built as they were.
C1_AddAfterBuildFails ==
    [][(is_built /\ op' = "add_pattern") =>
          (err' = "RuntimeError" /\ UNCHANGED tables)]_vars

C1_Witness ==
    /\ op = "add_pattern"
    /\ err = "RuntimeError"
    /\ is_built
    /\ added # {}

\* C2: taken in result order, each match returned by search_normalized
\* starts at or after the end of the match before it.
C2_NoOverlap ==
    op = "search_normalized" =>
        \A k \in 1..(Len(ret) - 1) : ret[k + 1].start >= ret[k].end

C2_Witness ==
    /\ op = "search_normalized"
    /\ Len(ret) >= 2
    /\ FiltersGiven(word_filters)
    /\ \E i, j \in 1..Len(Found) :
         /\ Found[i].start < Found[j].start
         /\ Found[j].start < Found[i].end

\* C3: with only non-empty patterns added, the pattern matches of search are
\* exactly the occurrences: each pair (P, s) with T[s:s+len(P)] == P is
\* reported once, with end s + len(P), and every reported span is one.
C3_ExactOccurrences ==
    (op = "search" /\ <<>> \notin added) =>
        /\ \A P \in added : \A s \in 0..Len(text) :
             Occurs(P, text, s) =>
                 Cardinality({k \in PatternIdx(ret) :
                                /\ ret[k].keyword = P
                                /\ ret[k].start = s
                                /\ ret[k].end = s + Len(P)}) = 1
        /\ \A k \in PatternIdx(ret) :
             /\ ret[k].keyword \in added
             /\ ret[k].end = ret[k].start + Len(ret[k].keyword)
             /\ ret[k].start >= 0
             /\ Occurs(ret[k].keyword, text, ret[k].start)

\* a pattern found inside a longer one that ends at the same place, and a
\* pattern found at two overlapping offsets
C3_Witness ==
    /\ op = "search"
    /\ <<>> \notin added
    /\ \E i, j \in PatternIdx(ret) :
         /\ ret[i].end = ret[j].end
         /\ ret[i].start < ret[j].start
    /\ \E i, j \in PatternIdx(ret) :
         /\ ret[i].keyword = ret[j].keyword
         /\ ret[i].start < ret[j].start
         /\ ret[j].start < ret[i].end

\* P occurs in T at offset s as a standalone token
Standalone(P, T, s) ==
    /\ Occurs(P, T, s)
    /\ (s = 0 \/ T[s] \notin AlphaChars \cup DigitChars)
    /\ (s + Len(P) = Len(T) \/ T[s + Len(P) + 1] \notin AlphaChars \cup DigitChars)

\* C4: every standalone occurrence of an added pattern is reported by search
\* as a FULL_WORD match of weight 1.0 at the offsets of the occurrence.
C4_StandaloneIsFullWord ==
    op = "search" =>
        \A P \in added : \A s \in 0..Len(text) :
            Standalone(P, text, s) =>
                \E k \in 1..Len(ret) :
                    /\ ret[k].keyword = P
                    /\ ret[k].start = s
                    /\ ret[k].end = s + Len(P)
                    /\ ret[k].match_type = MATCH_FULL_WORD
                    /\ ret[k].weight = 10

\* C5: with "he" and "she" registered, search("she") returns two matches:
\* "she" FULL_WORD over [0,3) and "he" SUFFIX over [1,3).
C5_HeShe ==
    (op = "search" /\ added = {He, She} /\ text = She /\ IsNone(word_filters)) =>
        /\ Len(ret) = 2
        /\ \E i, j \in 1..Len(ret) :
             /\ ret[i].keyword = She /\ ret[i].match_type = MATCH_FULL_WORD
             /\ ret[i].start = 0 /\ ret[i].end = 3
             /\ ret[j].keyword = He /\ ret[j].match_type = MATCH_SUFFIX
             /\ ret[j].start = 1 /\ ret[j].end = 3

C5_Witness ==
    /\ op = "search"
    /\ added = {He, She}
    /\ text = She
    /\ IsNone(word_filters)
    /\ Len(ret) = 2

\* C6: a pattern match is classified from the two characters next to its
\* span alone; "_" counts as a boundary.  FULL_WORD 1.0, PREFIX 0.6,
\* SUFFIX 0.6, SUBSTRING 0.2.
C6_BoundaryClassification ==
    op = "search" =>
        \A k \in PatternIdx(ret) :
            LET m == ret[k]
                ws == m.start = 0 \/ text[m.start] \notin AlphaChars \cup DigitChars
                we == m.end = Len(text) \/ text[m.end + 1] \notin AlphaChars \cup DigitChars
            IN /\ m.is_word_start = ws
               /\ m.is_word_end = we
               /\ (ws /\ we) => (m.match_type = MATCH_FULL_WORD /\ m.weight = 10)
               /\ (ws /\ ~we) => (m.match_type = MATCH_PREFIX /\ m.weight = 6)
               /\ (~ws /\ we) => (m.match_type = MATCH_SUFFIX /\ m.weight = 6)
               /\ (~ws /\ ~we) => (m.match_type = MATCH_SUBSTRING /\ m.weight = 2)

\* all four classes in one result, one of them bounded by "_" on the left
C6_Witness ==
    /\ op = "search"
    /\ \A t \in {MATCH_FULL_WORD, MATCH_PREFIX, MATCH_SUFFIX, MATCH_SUBSTRING} :
         \E k \in PatternIdx(ret) : ret[k].match_type = t
    /\ \E k \in PatternIdx(ret) :
         /\ ret[k].start > 0
         /\ text[ret[k].start] = "_"
         /\ ret[k].is_word_start

\* C7: search_normalized returns the greedy earliest-then-longest selection
\* over the matches of search: with the matches visited by (start ascending,
\* length descending), ties in the order search lists them, a match is kept
\* iff it starts at or after the end of the last kept one; the result is in
\* ascending start order, begins with the longest of the earliest matches,
\* and every dropped match starts before the end of a match kept before it.
C7_GreedySelection ==
    op = "search_normalized" =>
        LET M == Found
            n == Len(M)
            Before(i, j) ==
                \/ M[i].start < M[j].start
                \/ (M[i].start = M[j].start /\ M[i].length > M[j].length)
                \/ (M[i].start = M[j].start /\ M[i].length = M[j].length /\ i < j)
            Rank(i) == 1 + Cardinality({j \in 1..n : j # i /\ Before(j, i)})
            S == [r \in 1..n |-> M[CHOOSE i \in 1..n : Rank(i) = r]]
            K == {j \in 1..n : \E k \in 1..Len(ret) : ret[k] = S[j]}
            KeptBefore(j) == {k \in K : k < j}
            LastKept(j) == CHOOSE k \in KeptBefore(j) : \A q \in KeptBefore(j) : q <= k
            Kth(k) == CHOOSE j \in K : Cardinality(KeptBefore(j)) = k - 1
            MinStart == CHOOSE x \in {M[i].start : i \in 1..n} :
                            \A i \in 1..n : x <= M[i].start
        IN /\ \A k \in 1..(Len(ret) - 1) : ret[k].start <= ret[k + 1].start
           /\ (n > 0 =>
                 /\ Len(ret) > 0
                 /\ ret[1].start = MinStart
                 /\ \A i \in 1..n : M[i].start = MinStart => M[i].length <= ret[1].length)
           /\ Len(ret) = Cardinality(K)
           /\ \A k \in 1..Len(ret) : ret[k] = S[Kth(k)]
           /\ \A j \in 1..n :
                 (j \in K) <=> (KeptBefore(j) = {} \/ S[j].start >= S[LastKept(j)].end)
           /\ \A j \in (1..n) \ K : \E k \in KeptBefore(j) : S[j].start < S[k].end

\* two matches start together and the longer was kept, a match was dropped,
\* and a match that starts where the kept one ends was kept
C7_Witness ==
    /\ op = "search_normalized"
    /\ Len(ret) >= 2
    /\ ret[2].start = ret[1].end
    /\ Len(Found) > Len(ret)
    /\ \E i \in 1..Len(Found) :
         Found[i].start = ret[1].start /\ Found[i].length < ret[1].length

(***************************************************************************)
(* _process_word_filters on its own: every word cut from a text over e, 1  *)
(* and _, against one or two filters of a pool that uses every constraint. *)
(***************************************************************************)
WordTexts == StringsUpTo({"e", "1", "_"}, MaxTextLen)

FilterPool ==
    {WordFilter(None, None, Some(2), "any", Some("a"), None, None, None),
     WordFilter(Some(2), None, None, "alpha", Some("b"), None, None, None),
     WordFilter(None, Some(1), None, "digit", Some("a"), None, None, None),
     WordFilter(None, None, None, "alphanumeric", None, None, None, None),
     WordFilter(None, None, None, "any", Some("c"), Some(<<(<<"e">>), (<<"_">>)>>),
                None, None),
     WordFilter(None, None, None, "any", Some("d"), None,
                Some((<<"e", "e">>) :> 1), Some((<<"e">>) :> 2)),
     WordFilter(None, None, None, "any", Some(""), None, None, Some((<<"1">>) :> 1)),
     WordFilter(None, None, None, "any", Some("e"), Some(<<>>), Some(<<>>), None)}

FilterLists ==
    {<<f>> : f \in FilterPool} \cup {<<f, g>> : f \in FilterPool, g \in FilterPool}

InitWF ==
    /\ Constructed
    /\ Unloaded
    /\ set_order = "short_first"
    /\ added = {}
    /\ text \in WordTexts
    /\ word_filters \in {Some(l) : l \in FilterLists}
    /\ config = DefaultConfig
    /\ rules = <<>>
    /\ Idle

\* _process_word_filters(text, start, end, word_filters, results) with an
\* empty results list; ret is the list after the call
ProcessWordFiltersCall(start, end) ==
    /\ op' = "_process_word_filters"
    /\ span' = <<start, end>>
    /\ ret' = ProcessWordFilters(text, start, end, Value(word_filters), <<>>)
    /\ err' = "none"
    /\ UNCHANGED <<tables, env, added, threads, registry>>

NextWF ==
    \E start \in 0..Len(text) : \E end \in (start + 1)..Len(text) :
        ProcessWordFiltersCall(start, end)

SpecWF == InitWF /\ [][NextWF]_vars

\* A filter is satisfied by a word when each constraint it sets holds
Satisfies(word, f) ==
    /\ IsNone(f.exact_length) \/ Len(word) = Value(f.exact_length)
    /\ IsNone(f.min_length) \/ Len(word) >= Value(f.min_length)
    /\ IsNone(f.max_length) \/ Len(word) <= Value(f.max_length)
    /\ \/ f.word_type = "any"
       \/ f.word_type = "alpha" /\ \A k \in 1..Len(word) : word[k] \in AlphaChars
       \/ f.word_type = "digit" /\ \A k \in 1..Len(word) : word[k] \in DigitChars
       \/ f.word_type = "alphanumeric" /\
             \A k \in 1..Len(word) : word[k] \in AlphaChars \cup DigitChars
    /\ IsNone(f.must_contain) \/
          \A k \in 1..Len(Value(f.must_contain)) : Contains(word, Value(f.must_contain)[k])
    /\ IsNone(f.min_occurrences) \/
          \A sub \in DOMAIN Value(f.min_occurrences) :
              Count(word, sub) >= Value(f.min_occurrences)[sub]
    /\ IsNone(f.max_occurrences) \/
          \A sub \in DOMAIN Value(f.max_occurrences) :
              Count(word, sub) <= Value(f.max_occurrences)[sub]

\* C8: a word that satisfies at least one filter of a non-empty list emits
\* exactly one FILTERED_WORD match of weight 0.7 whose labels are the labels
\* of the satisfied filters; a word that satisfies none emits no match.
C8_OneFilteredWordPerMatchingWord ==
    op = "_process_word_filters" =>
        LET word == Slice(text, span[1], span[2])
            filters == Value(word_filters)
            sat == {k \in 1..Len(filters) : Satisfies(word, filters[k])}
            labels == {Value(filters[k].label) : k \in {j \in sat : ~IsNone(filters[j].label)}}
        IN IF sat = {} THEN ret = <<>>
           ELSE /\ Len(ret) = 1
                /\ ret[1].match_type = MATCH_FILTERED_WORD
                /\ ret[1].weight = 7
                /\ ret[1].keyword = word
                /\ {ret[1].filter_labels[k] : k \in 1..Len(ret[1].filter_labels)} = labels

(***************************************************************************)
(* The three components side by side: one automaton, one Normalizer and    *)
(* one RegexEngine, each called on the text at hand.                       *)
(***************************************************************************)
\* Texts of the normalizer: Base64 of "she" once, twice ("YzJobA==") and of
\* "SECRET", "hi" encoded three times, Base64 that decodes to bytes that
\* are no text, malformed and over-padded Base64, percent-escapes, characters
\* NFKC folds, separators, a Base64 run inside other text, a text every
\* stage but the whole-text decode changes, and H with a combining macron
\* below
NormTexts ==
    {
     <<>>, <<"c", "2", "h", "l">>,
     <<"Y", "z", "J", "o", "b", "A", "=", "=">>,
     <<"U", "0", "V", "D", "U", "k", "V", "U">>,
     <<"W", "V", "V", "k", "c", "l", "B", "R", "P", "T", "0", "=">>,
     <<"/", "/", "/", "/", "/", "w", "=", "=">>, <<"Q", "Q", "=", "Q">>,
     <<"a", "b", "c", "d", "e", "f", "=", "h">>,
     <<"Q", "Q", "Q", "Q", "=", "=", "=", "=">>, <<"A", "A", "A", "A">>,
     <<"%", "6", "3", "%", "3", "2", "%", "6", "8", "%", "6", "c">>,
     <<"%", "e", "4">>, <<"U+FF21", " ", " ", "U+FB01", " ">>,
     <<"A", "_", "B", "-", "-", "c">>,
     <<"x", " ", "c", "2", "h", "l", "c", "2", "h", "l", " ", "y">>,
     <<"U+FF21", " ", "%", "2", "0", "c", "2", "h", "l", "_", "X">>,
     <<"H", "U+0331">>, <<" ", "c", "2", "h", "l">>,
     <<"A", "A", "A", "A", " ", "c", "2", "h", "l">>
    }

\* Configurations: the defaults, each switch flipped, the numeric limits
\* moved, everything off, only the whole-text decode, everything on, and
\* only Unicode normalization, whitespace collapse and lowercasing on (with
\* and without the lowercasing)
Configs ==
    {DefaultConfig,
     NormalizerConfig(2, TRUE, TRUE, TRUE, TRUE, TRUE, TRUE, 8, 250, 10, FALSE),
     NormalizerConfig(2, FALSE, TRUE, TRUE, TRUE, FALSE, TRUE, 8, 250, 10, FALSE),
     NormalizerConfig(2, TRUE, TRUE, TRUE, TRUE, FALSE, FALSE, 8, 250, 10, FALSE),
     NormalizerConfig(2, TRUE, FALSE, TRUE, TRUE, FALSE, TRUE, 8, 250, 10, FALSE),
     NormalizerConfig(2, TRUE, TRUE, FALSE, TRUE, FALSE, TRUE, 8, 250, 10, FALSE),
     NormalizerConfig(2, TRUE, TRUE, TRUE, FALSE, FALSE, TRUE, 8, 250, 10, FALSE),
     NormalizerConfig(2, TRUE, TRUE, TRUE, TRUE, FALSE, TRUE, 8, 250, 10, TRUE),
     NormalizerConfig(0, TRUE, TRUE, TRUE, TRUE, FALSE, TRUE, 8, 250, 10, FALSE),
     NormalizerConfig(1, TRUE, TRUE, TRUE, TRUE, FALSE, TRUE, 8, 250, 10, FALSE),
     NormalizerConfig(3, TRUE, TRUE, TRUE, TRUE, FALSE, TRUE, 8, 250, 10, FALSE),
     NormalizerConfig(2, TRUE, TRUE, TRUE, TRUE, FALSE, TRUE, 4, 0, 10, FALSE),
     NormalizerConfig(2, TRUE, TRUE, TRUE, TRUE, FALSE, TRUE, 8, 250, 0, FALSE),
     NormalizerConfig(2, TRUE, TRUE, TRUE, TRUE, FALSE, TRUE, 4, 0, 1, FALSE),
     NormalizerConfig(2, FALSE, FALSE, FALSE, FALSE, FALSE, FALSE, 8, 250, 10, FALSE),
     NormalizerConfig(2, TRUE, FALSE, FALSE, FALSE, FALSE, FALSE, 8, 250, 10, FALSE),
     NormalizerConfig(3, TRUE, TRUE, TRUE, TRUE, TRUE, TRUE, 4, 0, 10, TRUE),
     NormalizerConfig(2, FALSE, FALSE, TRUE, TRUE, TRUE, FALSE, 8, 250, 10, FALSE),
     NormalizerConfig(2, FALSE, FALSE, TRUE, TRUE, FALSE, FALSE, 8, 250, 10, FALSE)}

\* Texts and patterns of the scans
ScanTexts == ExampleTexts \cup {<<>>, <<"h", "e", " ", "h", "e">>}
ScanPatterns == {<<>>, <<"h", "e">>, <<"s", "h", "e">>}

\* Rules of the regex engine: "he" under the default flags and without an
\* entity type, the empty pattern, and two digits, case-sensitive
HeRule == RegexRule("he", <<"h", "e">>, IGNORECASE, None, 10)
EmptyRule == RegexRule("empty", <<>>, IGNORECASE, Some(""), 5)
DigitsRule == RegexRule("digits", <<Backslash, "d", Backslash, "d">>, 0, Some("NUM"), 8)

\* \d{3}-\d{3}-\d{4}
PhoneRule ==
    RegexRule("phone",
              <<Backslash, "d", "{", "3", "}", "-", Backslash, "d", "{", "3", "}", "-",
                Backslash, "d", "{", "4", "}">>,
              IGNORECASE, Some("PHONE"), 9)

\* "call 555-123-4567 now"
CallText ==
    <<"c", "a", "l", "l", " ", "5", "5", "5", "-", "1", "2", "3", "-", "4", "5", "6",
      "7", " ", "n", "o", "w">>

RuleLists == {<<>>, <<HeRule, EmptyRule>>, <<DigitsRule, HeRule>>, <<PhoneRule>>}
RegexTexts ==
    {<<>>, <<"S", "h", "e", " ", "h", "e">>, <<"1", "2", "-", "3", "4", "5">>,
     <<"h", "e", "1", "2", "H", "E", "3", "4">>, CallText}

Init ==
    /\ Constructed
    /\ Unloaded
    /\ added = {}
    /\ Idle
    /\ \/ /\ text \in ScanTexts
          /\ word_filters \in FilterArgs
          /\ set_order \in {"short_first", "long_first"}
          /\ config = DefaultConfig
          /\ rules = RegexEngineInit(<<DigitsRule, HeRule>>).rules
       \/ /\ text \in NormTexts
          /\ word_filters = None
          /\ set_order = "short_first"
          /\ config \in Configs
          /\ rules = RegexEngineInit(<<DigitsRule, HeRule>>).rules
       \/ /\ text \in RegexTexts
          /\ word_filters = None
          /\ set_order = "short_first"
          /\ config = DefaultConfig
          /\ rules \in {RegexEngineInit(rule_list).rules : rule_list \in RuleLists}

\* Normalizer.normalize(text); ret is the pair (normalized_text, steps)
NormalizeCall ==
    LET r == Normalize(config, text)
    IN /\ op' = "normalize"
       /\ ret' = IF r.err = "none" THEN <<r.out, r.steps>> ELSE <<>>
       /\ err' = r.err
       /\ UNCHANGED <<tables, env, added, span, threads, registry>>

\* Normalizer.normalize called again on the text the call before returned
NormalizeAgain ==
    LET r == Normalize(config, ret[1])
    IN /\ op = "normalize"
       /\ text' = ret[1]
       /\ op' = "normalize_again"
       /\ ret' = IF r.err = "none" THEN <<r.out, r.steps>> ELSE <<>>
       /\ err' = r.err
       /\ UNCHANGED <<tables, set_order, word_filters, config, rules, added, span, threads,
                      registry>>

\* RegexEngine.run(text)
RegexRun ==
    /\ op' = "run"
    /\ ret' = Run(rules, text)
    /\ err' = "none"
    /\ UNCHANGED <<tables, env, added, span, threads, registry>>

Next ==
    \/ \E pattern \in ScanPatterns : AddPattern(pattern)
    \/ Build
    \/ Search
    \/ SearchNormalized
    \/ NormalizeCall
    \/ NormalizeAgain
    \/ RegexRun

Spec == Init /\ [][Next]_vars

\* The text the Base64 stages of normalize receive: the stages before them
\* applied, the stages after them not
Base64StageInput ==
    Normalize([config EXCEPT !.enable_base64 = FALSE,
                             !.enable_separator_normalization = FALSE,
                             !.collapse_whitespace = FALSE, !.lowercase = FALSE],
              text).out

\* Base64 that cannot be decoded: the decode raises, or the length is wrong
Undecodable(txt) ==
    SafeBase64DecodeTry(txt).err # "none" \/ IsNone(SafeBase64DecodeTry(txt).value)

\* Nothing for the Base64 stages to decode: the whole text is undecodable,
\* and so is every run the substring stage would try
NothingDecodable ==
    LET t == Base64StageInput
        spans == find_base64_like_spans(t, config.min_base64_substring_len)
    IN /\ Undecodable(t)
       /\ \A k \in 1..Len(spans) : Undecodable(Slice(t, spans[k][1], spans[k][2]))

\* C9: search, search_normalized, normalize and run return and never raise,
\* for every text, pattern set (empty and never built included), filter
\* list and configuration; a scan with nothing to find returns the empty
\* list; and when the Base64 in the text is malformed or undecodable,
\* normalize returns what it returns with Base64 decoding switched off.
C9_ScansNeverRaise ==
    /\ op \in {"search", "search_normalized", "normalize", "run"} => err = "none"
    /\ (op \in {"search", "search_normalized"} /\ added = {} /\ ~FiltersGiven(word_filters))
           => ret = <<>>
    /\ (op \in {"search", "search_normalized"} /\ text = <<>>) => ret = <<>>
    /\ (op = "run" /\ rules = <<>>) => ret = <<>>
    /\ (op = "normalize" /\ config.enable_base64 /\ NothingDecodable) =>
           LET r == Normalize([config EXCEPT !.enable_base64 = FALSE], text)
           IN ret = <<r.out, r.steps>>

C9_Witness ==
    /\ op = "normalize"
    /\ config = DefaultConfig
    /\ SafeBase64DecodeTry(text).err = "binascii.Error"
    /\ find_base64_like_spans(text, config.min_base64_substring_len) # <<>>
    /\ ret = <<text, <<>>>>

(***************************************************************************)
(* Scans running in several threads on one automaton.  A thread runs       *)
(* search one iteration of its loop at a time; the iterations of different *)
(* threads interleave.  state, results and current_word_start are locals   *)
(* of the call, so each thread has its own.                                *)
(***************************************************************************)
ThreadIds == {1, 2}
ThreadTexts == {<<"s", "h", "e", "_">>, <<"h", "e", "_">>, <<"s", "h", "h", "e">>}
ThreadFilters == {None, Some(<<AlphaFilter>>)}
ThreadPatterns == {<<"h", "e">>, <<"s", "h", "e">>}

\* a thread that is in no call
IdleThread ==
    [pc |-> "idle", kind |-> "none", text |-> <<>>, word_filters |-> None, i |-> 0,
     state |-> 0, results |-> <<>>, current_word_start |-> -1, ret |-> <<>>]

InitThreads ==
    /\ Constructed
    /\ Unloaded
    /\ added = {}
    /\ set_order \in {"short_first", "long_first"}
    /\ text = <<"S", "h", "e", " ", "h", "e">>
    /\ word_filters = None
    /\ config = DefaultConfig
    /\ rules = RegexEngineInit(<<HeRule, EmptyRule>>).rules
    /\ span = <<0, 0>>
    /\ threads = [t \in ThreadIds |-> IdleThread]
    /\ op = "init"
    /\ ret = <<>>
    /\ err = "none"

\* one state variable of the scan shared by every thread
SharedScanState(t) == threads[1].state

\* the local variable `state` of the call thread t is in
ScanState(t) == threads[t].state

\* Steps 1 to 3 of search in thread t: build the automaton if it is not
\* built, and set up the locals
BeginSearch(t, kind, txt, wf) ==
    /\ threads[t].pc # "scan"
    /\ SetSelf(Ensured)
    /\ is_built' = TRUE
    /\ threads' = [threads EXCEPT ![t] =
                      [pc |-> "scan", kind |-> kind, text |-> txt, word_filters |-> wf,
                       i |-> 0, state |-> 0, results |-> <<>>,
                       current_word_start |-> -1, ret |-> <<>>]]
    /\ op' = "step"
    /\ ret' = <<>>
    /\ err' = "none"
    /\ UNCHANGED <<env, added, span, registry>>

\* Step 4 of search in thread t: one iteration of the loop over the text
StepSearch(t) ==
    LET th == threads[t]
        s == ScanStep(Self, set_order, th.text, th.word_filters, th.i, ScanState(t),
                      th.results, th.current_word_start)
    IN /\ th.pc = "scan"
       /\ th.i < Len(th.text)
       /\ threads' = [threads EXCEPT ![t] =
                         [th EXCEPT !.i = th.i + 1, !.state = s.state,
                                    !.results = s.results,
                                    !.current_word_start = s.current_word_start,
                                    !.pc = IF s.err = "none" THEN "scan" ELSE "raised"]]
       /\ op' = "step"
       /\ ret' = <<>>
       /\ err' = s.err
       /\ UNCHANGED <<tables, env, added, span, registry>>

\* Steps 5 and 6 of search in thread t, and for search_normalized the sort
\* and the greedy selection: the call returns
EndSearch(t) ==
    LET th == threads[t]
        matches == ScanEnd(th.text, th.word_filters, th.results, th.current_word_start)
        returned == IF th.kind = "search" THEN matches ELSE Normalized(matches)
    IN /\ th.pc = "scan"
       /\ th.i >= Len(th.text)
       /\ threads' = [threads EXCEPT ![t] = [th EXCEPT !.pc = "done", !.ret = returned]]
       /\ op' = th.kind
       /\ ret' = returned
       /\ err' = "none"
       /\ UNCHANGED <<tables, env, added, span, registry>>

NextThreads ==
    \/ \E pattern \in ThreadPatterns : AddPattern(pattern)
    \/ Build
    \/ \E t \in ThreadIds, kind \in {"search", "search_normalized"},
          txt \in ThreadTexts, wf \in ThreadFilters : BeginSearch(t, kind, txt, wf)
    \/ \E t \in ThreadIds : StepSearch(t)
    \/ \E t \in ThreadIds : EndSearch(t)
    \/ RegexRun

SpecThreads == InitThreads /\ [][NextThreads]_vars

\* What the call thread t made returns when it runs alone on the automaton
Alone(t) ==
    LET matches == Scan(Self, set_order, threads[t].text, threads[t].word_filters).results
    IN IF threads[t].kind = "search" THEN matches ELSE Normalized(matches)

\* C10: on a built automaton no step of a search or search_normalized call,
\* in whatever thread and however interleaved, changes transitions, fail,
\* outputs or is_built; each call returns what it returns when run alone;
\* and run leaves the compiled rule list as it was.
C10_ConcurrentScansReadOnly ==
    /\ [](\A t \in DOMAIN threads : threads[t].pc = "done" => threads[t].ret = Alone(t))
    /\ [][(is_built /\ op' \in {"step", "search", "search_normalized"})
             => UNCHANGED tables]_vars
    /\ [][op' = "run" => rules' = rules]_vars

\* two calls in progress at once, each part-way through its text, in
\* different states of the automaton, with matches found by both
C10_Witness ==
    /\ threads # <<>>
    /\ is_built
    /\ \A t \in ThreadIds :
         /\ threads[t].pc = "scan"
         /\ threads[t].i > 0
         /\ threads[t].i < Len(threads[t].text)
         /\ threads[t].results # <<>>
    /\ threads[1].state # threads[2].state
    /\ threads[1].kind # threads[2].kind

(***************************************************************************)
(* The order of the steps normalize records.                               *)
(***************************************************************************)
\* Base64 of "SECRET"
SecretBase64 == <<"U", "0", "V", "D", "U", "k", "V", "U">>

Base64StepNames ==
    {"base64_substring_decode"} \cup {DepthStepNames[k] : k \in DOMAIN DepthStepNames}

\* The place of a step name in the pipeline
StepRank(name) ==
    CASE name = "unicode_nfkc" -> 1
      [] name = "url_decode" -> 2
      [] name = "base64_substring_decode" -> 3
      [] name = "base64_decode_depth_1" -> 4
      [] name = "base64_decode_depth_2" -> 5
      [] name = "base64_decode_depth_3" -> 6
      [] name = "base64_decode_depth_4" -> 7
      [] name = "normalize_separators" -> 8
      [] name = "collapse_whitespace" -> 9
      [] name = "lowercase" -> 10
      [] OTHER -> 0

\* C11: the steps normalize returns are in pipeline order: "unicode_nfkc",
\* "url_decode", the "base64_substring_decode" entries, the
\* "base64_decode_depth_k" entries by k, "normalize_separators",
\* "collapse_whitespace", "lowercase", each but the substring entries at
\* most once; no Base64 step follows "lowercase"; and the Base64 text of
\* "SECRET" with decoding and lowercasing on gives "secret" with a Base64
\* step before "lowercase".
C11_StepsInPipelineOrder ==
    op = "normalize" =>
        LET steps == ret[2]
        IN /\ \A j \in 1..Len(steps) : StepRank(steps[j]) > 0
           /\ \A j, k \in 1..Len(steps) :
                 j < k => \/ StepRank(steps[j]) < StepRank(steps[k])
                          \/ /\ steps[j] = "base64_substring_decode"
                             /\ steps[k] = "base64_substring_decode"
           /\ \A j, k \in 1..Len(steps) :
                 (steps[j] = "lowercase" /\ steps[k] \in Base64StepNames) => k < j
           /\ (text = SecretBase64 /\ config.lowercase /\ config.enable_base64
                 /\ config.max_decode_depth > 0) =>
                 /\ ret[1] = <<"s", "e", "c", "r", "e", "t">>
                 /\ \E j, k \in 1..Len(steps) :
                       j < k /\ steps[j] \in Base64StepNames /\ steps[k] = "lowercase"

\* "SECRET" decoded in the whole-text stage and lowercased after it
C11_Witness ==
    /\ op = "normalize"
    /\ text = SecretBase64
    /\ config.lowercase
    /\ ret = <<(<<"s", "e", "c", "r", "e", "t">>),
               (<<"base64_decode_depth_1", "lowercase">>)>>

(***************************************************************************)
(* The stages of normalize one by one.                                     *)
(***************************************************************************)
\* The text and the steps of normalize(text) before its first stage and
\* after each of its stages: acc holds them up to the stage before the k-th
RECURSIVE StagesFrom(_, _)
StagesFrom(k, acc) ==
    IF k > 7 THEN acc
    ELSE CHOOSE result \in {StagesFrom(k + 1, Append(acc, next)) :
                               next \in {NormalizeStage(config, k, acc[k])}} : TRUE

\* at index k + 1, the text and the steps after the first k stages
AfterStages == StagesFrom(1, <<[out |-> text, steps |-> <<>>, err |-> "none"]>>)

\* Is the k-th stage switched on
StageEnabled(k) ==
    CASE k = 1 -> config.enable_unicode_norm
      [] k = 2 -> config.enable_url_decode
      [] k = 3 -> config.enable_base64 /\ config.enable_substring_base64
      [] k = 4 -> config.enable_base64
      [] k = 5 -> config.enable_separator_normalization
      [] k = 6 -> config.collapse_whitespace
      [] k = 7 -> config.lowercase

\* The names the k-th stage records
StageNames(k) ==
    CASE k = 1 -> {"unicode_nfkc"}
      [] k = 2 -> {"url_decode"}
      [] k = 3 -> {"base64_substring_decode"}
      [] k = 4 -> {DepthStepNames[d] : d \in DOMAIN DepthStepNames}
      [] k = 5 -> {"normalize_separators"}
      [] k = 6 -> {"collapse_whitespace"}
      [] k = 7 -> {"lowercase"}

\* A decode the normalizer rejects: it fails, or gives nothing, or gives
\* text that is not mostly printable
Rejected(txt) ==
    \/ Undecodable(txt)
    \/ ~IsMostlyPrintable(Value(SafeBase64DecodeTry(txt).value))

\* C12: a stage of normalize appends names of its own to the steps exactly
\* when it changed the text it received; a disabled stage leaves text and
\* steps as they were; a whole-text decode that is rejected, and a substring
\* stage all of whose candidate runs are rejected, leave the text as it
\* was; and a call that returns no steps returns the input text.
C12_StepIffChanged ==
    op = "normalize" => \A stages \in {AfterStages} :
        /\ ret = <<stages[8].out, stages[8].steps>>
        /\ \A k \in 1..7 : \A before \in {stages[k]} : \A after \in {stages[k + 1]} :
             LET added_steps == SubSeq(after.steps, Len(before.steps) + 1, Len(after.steps))
                 spans == Prefix(find_base64_like_spans(before.out,
                                                        config.min_base64_substring_len),
                                 config.max_base64_substrings)
             IN /\ Len(after.steps) >= Len(before.steps)
                /\ SubSeq(after.steps, 1, Len(before.steps)) = before.steps
                /\ \A j \in 1..Len(added_steps) : added_steps[j] \in StageNames(k)
                /\ (added_steps # <<>>) <=> (after.out # before.out)
                /\ ~StageEnabled(k) => after = before
                /\ (k = 4 /\ Rejected(before.out)) => after.out = before.out
                /\ (k = 3 /\ \A j \in 1..Len(spans) :
                                Rejected(Slice(before.out, spans[j][1], spans[j][2])))
                      => after.out = before.out
        /\ ret[2] = <<>> => ret[1] = text

\* Base64 that decodes, but to bytes that are no text: both decode stages
\* are on, the substring stage passes over the run for its low entropy, the
\* whole-text stage rejects the decode, and the text comes back with no step
C12_Witness ==
    /\ op = "normalize"
    /\ config = DefaultConfig
    /\ ~Undecodable(text)
    /\ Rejected(text)
    /\ find_base64_like_spans(text, config.min_base64_substring_len) # <<>>
    /\ shannon_entropy(text) < config.base64_entropy_threshold * 100
    /\ ret = <<text, <<>>>>

(***************************************************************************)
(* Layers of Base64.                                                       *)
(***************************************************************************)
\* txt with n layers of Base64 taken off, each layer decoding to text that
\* is mostly printable; None when a layer does not
RECURSIVE Peeled(_, _)
Peeled(txt, n) ==
    IF n = 0 THEN Some(txt)
    ELSE IF Rejected(txt) THEN None
    ELSE Peeled(Value(SafeBase64DecodeTry(txt).value), n - 1)

\* C13: with max_decode_depth = 2 and Base64 decoding on, normalizing a text
\* that is a payload under three layers of Base64 takes off exactly two
\* layers: the result is the payload under one layer, and two decode steps
\* are recorded.
C13_DepthTwoLeavesOneLayer ==
    (/\ op = "normalize"
     /\ config.max_decode_depth = 2
     /\ config.enable_base64
     /\ ~IsNone(Peeled(text, 3))) =>
        /\ ret[1] = Value(Peeled(text, 2))
        /\ Cardinality({j \in 1..Len(ret[2]) : ret[2][j] \in Base64StepNames}) = 2

(***************************************************************************)
(* normalize applied to its own result.                                    *)
(***************************************************************************)
\* Only stages among Unicode normalization, whitespace collapse and
\* lowercasing are on
ClosedStagesOnly ==
    /\ ~config.enable_base64
    /\ ~config.enable_url_decode
    /\ ~config.enable_separator_normalization

\* C14: with only Unicode normalization, whitespace collapse and
\* lowercasing on, normalize applied to the text a normalize call returned
\* returns that text unchanged and records no step.
C14_ClosedStagesIdempotent ==
    (op = "normalize_again" /\ ClosedStagesOnly) => ret = <<text, <<>>>>

(***************************************************************************)
(* find_base64_like_spans on its own: every text over a letter, the        *)
(* padding sign and two characters outside the Base64 alphabet, and the    *)
(* minimum lengths around the lengths of their runs.                       *)
(***************************************************************************)
MaxSpanTextLen == 4

SpanTexts ==
    StringsUpTo({"a", "=", "_", " "}, MaxSpanTextLen)
    \cup {<<"a", "b", "c", "=", "=", "d", "e", "f">>,
          <<"a", "b", "c", "=", "=", "d", "e", "f", "!", "+", "/", "!", "A", "0", "9", "Z">>}

MinLens == 0..(MaxSpanTextLen + 1)

InitSpans ==
    /\ Constructed
    /\ Unloaded
    /\ set_order = "short_first"
    /\ added = {}
    /\ text \in SpanTexts
    /\ word_filters = None
    /\ config \in {[DefaultConfig EXCEPT !.min_base64_substring_len = min_len] :
                      min_len \in MinLens}
    /\ rules = <<>>
    /\ Idle

\* find_base64_like_spans(text, min_len), as _decode_base64_substrings calls
\* it with the configured minimum length
FindSpans ==
    /\ op' = "find_base64_like_spans"
    /\ ret' = find_base64_like_spans(text, config.min_base64_substring_len)
    /\ err' = "none"
    /\ UNCHANGED <<tables, env, added, span, threads, registry>>

NextSpans == FindSpans

SpecSpans == InitSpans /\ [][NextSpans]_vars

\* The Base64 alphabet: A-Z, a-z, 0-9, "+", "/" and "="
InAlphabet(c) == c \in UpperChars \cup LowerChars \cup DigitChars \cup {"+", "/", "="}

\* text[s:e] is a maximal run of alphabet characters
MaximalRun(s, e) ==
    /\ 0 <= s /\ s < e /\ e <= Len(text)
    /\ \A k \in (s + 1)..e : InAlphabet(text[k])
    /\ s = 0 \/ ~InAlphabet(text[s])
    /\ e = Len(text) \/ ~InAlphabet(text[e + 1])

\* C15: find_base64_like_spans(text, min_len) returns half-open (start, end)
\* pairs, each a maximal run of Base64-alphabet characters of length at
\* least min_len, in increasing order and disjoint, and every such run is
\* returned, the one that reaches the end of the text included.
C15_SpansAreMaximalRuns ==
    op = "find_base64_like_spans" =>
        LET min_len == config.min_base64_substring_len
        IN /\ \A j \in 1..Len(ret) :
                 /\ ret[j] \in Seq(Int) /\ Len(ret[j]) = 2
                 /\ MaximalRun(ret[j][1], ret[j][2])
                 /\ ret[j][2] - ret[j][1] >= min_len
           /\ \A j, k \in 1..Len(ret) : j < k => ret[j][2] < ret[k][1]
           /\ \A s \in 0..Len(text) : \A e \in s..Len(text) :
                 (MaximalRun(s, e) /\ e - s >= min_len) =>
                     \E j \in 1..Len(ret) : ret[j] = <<s, e>>

\* "abc==def" with min_len 3 is one run, which reaches the end of the text
C15_Witness ==
    /\ op = "find_base64_like_spans"
    /\ text = <<"a", "b", "c", "=", "=", "d", "e", "f">>
    /\ config.min_base64_substring_len = 3
    /\ ret = <<(<<0, 8>>)>>

(***************************************************************************)
(* The matches RegexEngine.run returns.                                    *)
(***************************************************************************)
\* The place in the rule list of the rule that made the j-th match (the
\* rules of the model have different ids)
RuleOf(j) == CHOOSE i \in 1..Len(rules) : rules[i][1].id = ret[j].rule_id

\* The matches are grouped by rule in the order of the rule list; the
\* matches of one rule go left to right and do not overlap; each match is
\* an occurrence of its rule's pattern and carries its start, end and text
\* and the rule's id and confidence; and every occurrence of a rule's
\* pattern is returned or overlaps one that is
RunGroupedAndOrdered ==
    /\ \A j \in 1..Len(ret) : \E i \in 1..Len(rules) : rules[i][1].id = ret[j].rule_id
    /\ \A j, k \in 1..Len(ret) : j < k => RuleOf(j) <= RuleOf(k)
    /\ \A j, k \in 1..Len(ret) :
          (j < k /\ RuleOf(j) = RuleOf(k)) =>
              /\ ret[j].start < ret[k].start
              /\ ret[j].end <= ret[k].start
    /\ \A j \in 1..Len(ret) :
          /\ 0 <= ret[j].start /\ ret[j].start <= ret[j].end /\ ret[j].end <= Len(text)
          /\ ret[j].text = Slice(text, ret[j].start, ret[j].end)
          /\ MatchesAt(rules[RuleOf(j)][2], text, ret[j].start)
          /\ ret[j].end - ret[j].start = Len(rules[RuleOf(j)][2].atoms)
          /\ ret[j].confidence = rules[RuleOf(j)][1].confidence
    /\ \A i \in 1..Len(rules) : \A p \in 0..Len(text) :
          MatchesAt(rules[i][2], text, p) =>
              \E j \in 1..Len(ret) :
                  /\ RuleOf(j) = i
                  /\ ret[j].start <= p
                  /\ p < ret[j].end \/ p = ret[j].start

\* C16 as stated: run returns the matches grouped by rule in declaration
\* order, within a rule left to right and not overlapping, each with its
\* start, end and text and with the id, the entity type and the confidence
\* of its rule.
C16_RunOrderAndAnnotation ==
    op = "run" =>
        /\ RunGroupedAndOrdered
        /\ \A j \in 1..Len(ret) : Some(ret[j].entity_type) = rules[RuleOf(j)][1].entity_type

\* C16 amended: as stated, but a match of a rule whose entity type is None
\* or the empty string carries the entity type "UNKNOWN".
C16_RunOrderAndAnnotationOrUnknown ==
    op = "run" =>
        /\ RunGroupedAndOrdered
        /\ \A j \in 1..Len(ret) :
              LET entity_type == rules[RuleOf(j)][1].entity_type
              IN ret[j].entity_type =
                     IF IsNone(entity_type) \/ Value(entity_type) = "" THEN "UNKNOWN"
                     ELSE Value(entity_type)

\* two rules with two matches each, those of the first rule to the right
\* of those of the second, and the second rule without an entity type
C16_Witness ==
    /\ op = "run"
    /\ Len(rules) = 2
    /\ Len(ret) = 4
    /\ ret[1].rule_id = "digits" /\ ret[2].rule_id = "digits"
    /\ ret[3].rule_id = "he" /\ ret[4].rule_id = "he"
    /\ ret[3].start < ret[1].start
    /\ ret[1].entity_type = "NUM"
    /\ ret[3].entity_type = "UNKNOWN"
    /\ IsNone(rules[2][1].entity_type)

(***************************************************************************)
(* The telephone number example.                                           *)
(***************************************************************************)
\* the engine has the one rule \d{3}-\d{3}-\d{4} and ran on the example text
PhoneExampleRan ==
    /\ op = "run"
    /\ rules = RegexEngineInit(<<PhoneRule>>).rules
    /\ text = CallText

\* one match at [5, 17) with the rule's entity type and confidence
OnePhoneMatch ==
    /\ Len(ret) = 1
    /\ ret[1].start = 5 /\ ret[1].end = 17
    /\ ret[1].rule_id = PhoneRule.id
    /\ Some(ret[1].entity_type) = PhoneRule.entity_type
    /\ ret[1].confidence = PhoneRule.confidence

\* C17 as stated: the rule \d{3}-\d{3}-\d{4} run on "call 555-123-4567 now"
\* returns one match, with text "555-123-4467", at the offset of the number,
\* with the rule's entity type and confidence.
C17_PhoneExampleAsStated ==
    PhoneExampleRan =>
        /\ OnePhoneMatch
        /\ ret[1].text = <<"5", "5", "5", "-", "1", "2", "3", "-", "4", "4", "6", "7">>

\* C17 amended: the one match has the text "555-123-4567", the characters
\* of the input at [5, 17).
C17_PhoneExample ==
    PhoneExampleRan =>
        /\ OnePhoneMatch
        /\ ret[1].text = <<"5", "5", "5", "-", "1", "2", "3", "-", "4", "5", "6", "7">>
        /\ ret[1].text = Slice(text, 5, 17)

C17_Witness ==
    /\ PhoneExampleRan
    /\ Len(ret) = 1
    /\ ret[1].text = SubSeq(CallText, 6, 17)
    /\ ret[1].entity_type = "PHONE"

(***************************************************************************)
(* Constructing regex engines, from rule lists with and without malformed  *)
(* patterns, and running the engine last constructed.  A construction that *)
(* raises assigns nothing: the engine at hand stays the one from before.   *)
(***************************************************************************)
\* Patterns re.compile rejects: an unclosed group, a stray ")", an unclosed
\* set, a repeat with nothing before it, a backslash at the end
MalformedPatterns ==
    {<<"(">>, <<"h", "e", ")">>, <<"[", "a">>, <<"*", "h", "e">>, <<"h", Backslash>>}

MalformedRules == {RegexRule("bad", pattern, IGNORECASE, None, 10) : pattern \in MalformedPatterns}

ConstructLists ==
    RuleLists
    \cup {<<HeRule>>, <<DigitsRule>>, <<EmptyRule, DigitsRule>>, <<PhoneRule, HeRule>>,
          <<DigitsRule, EmptyRule, HeRule>>}
    \cup {<<bad>> : bad \in MalformedRules}
    \cup {<<HeRule, bad>> : bad \in MalformedRules}
    \cup {<<bad, DigitsRule>> : bad \in MalformedRules}
    \cup {<<EmptyRule, bad, HeRule>> : bad \in MalformedRules}

InitRegex ==
    /\ Constructed
    /\ Unloaded
    /\ set_order = "short_first"
    /\ added = {}
    /\ text \in RegexTexts
    /\ word_filters = None
    /\ config = DefaultConfig
    /\ rules = RegexEngineInit(<<>>).rules
    /\ Idle

\* engine = RegexEngine(rule_list)
RegexEngineConstruct(rule_list) ==
    LET made == RegexEngineInit(rule_list)
    IN /\ op' = "RegexEngine"
       /\ rules' = IF made.err = "none" THEN made.rules ELSE rules
       /\ err' = made.err
       /\ ret' = <<>>
       /\ UNCHANGED <<tables, set_order, text, word_filters, config, added, span, threads,
                      registry>>

NextRegex ==
    \/ \E rule_list \in ConstructLists : RegexEngineConstruct(rule_list)
    \/ RegexRun

SpecRegex == InitRegex /\ [][NextRegex]_vars

\* C18: constructing an engine from a rule list with a malformed pattern
\* raises and leaves no engine for that list; constructing one from a list
\* without pairs every rule with its compiled pattern; the engine at hand
\* holds only compiled patterns; and run raises nothing and leaves the
\* compiled rules as they are.
C18_CompileAtConstruction ==
    /\ [][\A rule_list \in ConstructLists :
            RegexEngineConstruct(rule_list) =>
                IF \E k \in 1..Len(rule_list) : rule_list[k].pattern \in MalformedPatterns
                THEN err' = "re.error" /\ rules' = rules
                ELSE /\ err' = "none"
                     /\ Len(rules') = Len(rule_list)
                     /\ \A k \in 1..Len(rule_list) : rules'[k][1] = rule_list[k]]_vars
    /\ [](\A k \in 1..Len(rules) :
            /\ rules[k][2].err = "none"
            /\ rules[k][2] = Compile(rules[k][1].pattern, rules[k][1].flags))
    /\ [][op' = "run" => (err' = "none" /\ rules' = rules)]_vars

\* a construction has just failed: the engine at hand is still the one
\* constructed before, with its two compiled rules
C18_Witness ==
    /\ op = "RegexEngine"
    /\ err = "re.error"
    /\ Len(rules) = 2
    /\ \A k \in 1..Len(rules) : rules[k][2].err = "none"

(***************************************************************************)
(* The tables after build.                                                 *)
(***************************************************************************)
\* C19: once the automaton is built, whatever patterns were added, state 0
\* is the root (no transition leads to it, and one leads to every other
\* state), fail[0] = 0, and the outputs of every state include the outputs
\* of the state its failure link points to.
C19_BuildInvariants ==
    is_built =>
        /\ 0 \in DOMAIN transitions
        /\ \A s \in DOMAIN transitions : \A c \in DOMAIN transitions[s] :
              transitions[s][c] # 0
        /\ \A t \in DOMAIN transitions \ {0} :
              \E s \in DOMAIN transitions : \E c \in DOMAIN transitions[s] :
                  transitions[s][c] = t
        /\ fail[0] = 0
        /\ \A s \in DOMAIN fail : outputs[fail[s]] \subseteq outputs[s]

(***************************************************************************)
(* Failure links and the state of a scan as longest suffixes.              *)
(***************************************************************************)
\* The prefixes of the added patterns: the strings the trie states spell
PatternPrefixes == UNION {{SubSeq(p, 1, k) : k \in 0..Len(p)} : p \in added} \cup {<<>>}

\* The state that spells w
RECURSIVE StateFrom(_, _, _)
StateFrom(w, k, s) == IF k > Len(w) THEN s ELSE StateFrom(w, k + 1, transitions[s][w[k]])

StateOf(w) == StateFrom(w, 1, 0)

IsSuffix(u, w) == Len(u) <= Len(w) /\ SubSeq(w, Len(w) - Len(u) + 1, Len(w)) = u

\* The longest suffix of w, shorter than max_len + 1, that is a prefix of a
\* pattern
LongestSuffix(w, max_len) ==
    CHOOSE u \in PatternPrefixes :
        /\ IsSuffix(u, w) /\ Len(u) <= max_len
        /\ \A v \in PatternPrefixes : (IsSuffix(v, w) /\ Len(v) <= max_len) => Len(v) <= Len(u)

\* C20: once the automaton is built, the failure link of every state but
\* the root points to the state that spells the longest proper suffix of
\* the state's string that is a prefix of a pattern (the root for the empty
\* suffix); and a scan that has consumed the first i characters of its text
\* is in the state that spells the longest suffix of those characters that
\* is a prefix of a pattern.
C20_FailureLinksAreLongestSuffixes ==
    /\ is_built =>
          \A w \in PatternPrefixes \ {<<>>} :
              fail[StateOf(w)] = StateOf(LongestSuffix(w, Len(w) - 1))
    /\ \A t \in DOMAIN threads :
          threads[t].pc \in {"scan", "done"} =>
              LET consumed == SubSeq(threads[t].text, 1, threads[t].i)
              IN threads[t].state = StateOf(LongestSuffix(consumed, Len(consumed)))

\* "he" and "she" added: the failure link of "she" points to "he", and a
\* scan of "shhe" that has consumed "shh" is in the state of "h"
C20_Witness ==
    /\ is_built
    /\ added = {<<"h", "e">>, <<"s", "h", "e">>}
    /\ fail[StateOf(<<"s", "h", "e">>)] = StateOf(<<"h", "e">>)
    /\ StateOf(<<"h", "e">>) # 0
    /\ \E t \in DOMAIN threads :
          /\ threads[t].pc = "scan"
          /\ threads[t].text = <<"s", "h", "h", "e">>
          /\ threads[t].i = 3
          /\ threads[t].state = StateOf(<<"h">>)

(***************************************************************************)
(* add_pattern called more than once with the same pattern.                *)
(***************************************************************************)
MaxAdds == 3

\* In this specification `added` is the list of the arguments of the
\* add_pattern calls that returned, in call order, repetitions included.
InitAdd ==
    /\ Constructed
    /\ Unloaded
    /\ set_order \in {"short_first", "long_first"}
    /\ added = <<>>
    /\ text \in ExampleTexts
    /\ word_filters = None
    /\ config = DefaultConfig
    /\ rules = <<>>
    /\ Idle

\* add_pattern(pattern), the call recorded
AddPatternCall(pattern) ==
    /\ Len(added) < MaxAdds
    /\ op' = "add_pattern"
    /\ ret' = <<>>
    /\ IF is_built
       THEN /\ err' = "RuntimeError"
            /\ UNCHANGED <<tables, added>>
       ELSE /\ err' = "none"
            /\ SetSelf(InsertPattern(Self, pattern))
            /\ added' = Append(added, pattern)
            /\ UNCHANGED is_built
    /\ UNCHANGED <<env, span, threads, registry>>

NextAdd ==
    \/ \E pattern \in PatternPool : AddPatternCall(pattern)
    \/ Build
    \/ Search

SpecAdd == InitAdd /\ [][NextAdd]_vars

\* The calls without the repetitions: the first call of every pattern
RECURSIVE FirstCalls(_, _)
FirstCalls(calls, k) ==
    IF k = 0 THEN <<>>
    ELSE LET before == FirstCalls(calls, k - 1)
         IN IF \E j \in 1..(k - 1) : calls[j] = calls[k] THEN before
            ELSE Append(before, calls[k])

\* The automaton after one add_pattern call for each pattern of the list
RECURSIVE InsertAll(_, _)
InsertAll(patterns, k) ==
    IF k = 0 THEN NewAutomaton ELSE InsertPattern(InsertAll(patterns, k - 1), patterns[k])

AddedOnce == InsertAll(FirstCalls(added, Len(added)), Len(FirstCalls(added, Len(added))))

\* C21: every pattern added has a terminal state, the state its characters
\* lead to from the root, whose outputs hold it; before build() the tables
\* are those that one add_pattern call per pattern gives, however often a
\* pattern was added, and one more add_pattern of a pattern added already
\* ends in that terminal state and changes no table; and a search returns
\* what it returns on the automaton built from one call per pattern.
C21_DuplicateAddIdempotent ==
    /\ \A k \in DOMAIN added : added[k] \in outputs[StateOf(added[k])]
    /\ ~is_built =>
          /\ Self = AddedOnce
          /\ \A k \in DOMAIN added :
                /\ InsertFrom(Self, 0, added[k], 1) = [a |-> Self, state |-> StateOf(added[k])]
                /\ InsertPattern(Self, added[k]) = Self
    /\ (op = "search" /\ err = "none") =>
          ret = Scan(BuildAutomaton(AddedOnce), set_order, text, word_filters).results

\* "he", "she" and "he" again added, not built: six states as after "he"
\* and "she", and "he" in the outputs of its terminal state only
C21_Witness ==
    /\ op = "add_pattern"
    /\ ~is_built
    /\ added = <<He, She, He>>
    /\ NumStates(transitions) = 6
    /\ outputs[StateOf(He)] = {He}

(***************************************************************************)
(* build() on no patterns, and build() called again.                       *)
(***************************************************************************)
\* C22: while no pattern was added the tables are those of the constructor
\* (one root state, fail[0] = 0, no outputs), whether or not build() ran,
\* and a search returns no pattern match; and a build() on an automaton
\* that is built leaves transitions, fail and outputs as they were.
C22_BuildIdempotent ==
    /\ [](added = {} =>
            /\ Self = NewAutomaton
            /\ op \in {"search", "search_normalized"} =>
                  \A j \in DOMAIN ret : ret[j].match_type = MATCH_FILTERED_WORD)
    /\ [][(is_built /\ op' = "build") =>
            (transitions' = transitions /\ outputs' = outputs /\ fail' = fail)]_vars

\* build() has run on an automaton without patterns
C22_Witness ==
    /\ op = "build"
    /\ is_built
    /\ added = {}
    /\ DOMAIN transitions = {0}
    /\ fail[0] = 0
    /\ outputs[0] = {}

(***************************************************************************)
(* The words search hands to the filters.                                  *)
(***************************************************************************)
\* A word character of a scan with filters: alphanumeric, or a character
\* that is not alphanumeric and occurs in a must_contain substring
IsWordChar(c) ==
    \/ CharIsAlnum(c)
    \/ \E k \in 1..Len(Value(word_filters)) :
          LET f == Value(word_filters)[k]
          IN /\ ~IsNone(f.must_contain)
             /\ \E j \in 1..Len(Value(f.must_contain)) :
                   \E q \in 1..Len(Value(f.must_contain)[j]) :
                       Value(f.must_contain)[j][q] = c

\* [s, e) is a maximal run of word characters of the text
MaximalWordRun(s, e) ==
    /\ 0 <= s /\ s < e /\ e <= Len(text)
    /\ \A i \in s..(e - 1) : IsWordChar(text[i + 1])
    /\ s = 0 \/ ~IsWordChar(text[s])
    /\ e = Len(text) \/ ~IsWordChar(text[e + 1])

\* What one evaluation of the filters on each maximal run that starts at
\* position s or later appends, runs in ascending order
RECURSIVE OncePerRunFrom(_)
OncePerRunFrom(s) ==
    IF s >= Len(text) THEN <<>>
    ELSE IF \E e \in (s + 1)..Len(text) : MaximalWordRun(s, e)
         THEN LET e == CHOOSE e \in (s + 1)..Len(text) : MaximalWordRun(s, e)
              IN ProcessWordFilters(text, s, e, Value(word_filters), <<>>)
                     \o OncePerRunFrom(e)
         ELSE OncePerRunFrom(s + 1)

IsFilteredWord(m) == m.match_type = MATCH_FILTERED_WORD

\* C23: the FILTERED_WORD matches of a search with filters are, in order,
\* what one evaluation of the filters on each maximal run of word
\* characters appends, the run that ends with the text included; each spans
\* one maximal run, they are pairwise disjoint and in ascending start
\* order, and their is_word_start and is_word_end are true.
C23_FiltersOncePerWordRun ==
    (op = "search" /\ err = "none" /\ FiltersGiven(word_filters)) =>
        \A words \in {SelectSeq(ret, IsFilteredWord)} :
            /\ words = OncePerRunFrom(0)
            /\ \A j \in DOMAIN words :
                  /\ MaximalWordRun(words[j].start, words[j].end)
                  /\ words[j].is_word_start /\ words[j].is_word_end
            /\ \A j \in 1..(Len(words) - 1) : words[j].end <= words[j + 1].start

\* "e_h" searched with the alphabetic filter: the words "e" and "h", the
\* second one ending with the text
C23_Witness ==
    /\ op = "search"
    /\ text = <<"e", "_", "h">>
    /\ word_filters = Some(<<AlphaFilter>>)
    /\ LET words == SelectSeq(ret, IsFilteredWord)
       IN /\ Len(words) = 2
          /\ <<words[1].start, words[1].end>> = <<0, 1>>
          /\ <<words[2].start, words[2].end>> = <<2, 3>>

(***************************************************************************)
(* The whole-text Base64 stage.                                            *)
(***************************************************************************)
\* A strict decode of txt (length a multiple of 4, alphabet and padding
\* validated, the bytes read as UTF-8): of txt as it is, or of txt with its
\* whitespace taken out first; None when the decode fails
StrictDecode(txt, stripped) ==
    LET data == IF stripped THEN RemoveSpaces(txt) ELSE txt
        decoded_bytes == B64Decode(data)
    IN IF Len(data) % 4 # 0 \/ decoded_bytes.err # "none" THEN None
       ELSE Some(Utf8Decode(decoded_bytes.bytes, 1, "ignore"))

\* The decode succeeds and at least 90% of its characters are printable
Accepted(txt, stripped) ==
    /\ ~IsNone(StrictDecode(txt, stripped))
    /\ Value(StrictDecode(txt, stripped)) # <<>>
    /\ 10 * Cardinality({k \in 1..Len(Value(StrictDecode(txt, stripped))) :
                            IsPrintable(Value(StrictDecode(txt, stripped))[k])})
          >= 9 * Len(Value(StrictDecode(txt, stripped)))

\* txt after n accepted decodes in a row; None when one of them is not accepted
RECURSIVE Decoded(_, _, _)
Decoded(txt, n, stripped) ==
    IF n = 0 THEN Some(txt)
    ELSE IF ~Accepted(txt, stripped) THEN None
    ELSE Decoded(Value(StrictDecode(txt, stripped)), n - 1, stripped)

\* The whole-text stage of the last normalize call, when it is on: it
\* recorded base64_decode_depth_1 .. _n with n <= max_decode_depth, its
\* output is its input after n accepted decodes, and with n below the bound
\* the next decode is not accepted
WholeTextStage(stripped) ==
    (op = "normalize" /\ config.enable_base64) =>
        \A stages \in {AfterStages} : \A before \in {stages[4]} : \A after \in {stages[5]} :
            LET n == Len(after.steps) - Len(before.steps)
            IN /\ n >= 0 /\ n <= config.max_decode_depth
               /\ SubSeq(after.steps, 1, Len(before.steps)) = before.steps
               /\ \A j \in 1..n : after.steps[Len(before.steps) + j] = DepthStepNames[j]
               /\ after.err = "none"
               /\ Some(after.out) = Decoded(before.out, n, stripped)
               /\ n < config.max_decode_depth => ~Accepted(after.out, stripped)

\* C24 as stated: every recorded decode is a strict decode of the entire
\* current string.
C24_WholeTextDecodeAsStated == WholeTextStage(FALSE)

\* C24: the whole-text stage performs at most max_decode_depth decodes and
\* records base64_decode_depth_1 .. _n in a row; every recorded decode is a
\* strict decode of the current string with its whitespace removed whose
\* result is at least 90% printable; the stage stops without error at the
\* first decode that fails or is not printable enough; its output is the
\* result of the last accepted decode, the input when n = 0.
C24_WholeTextDecode == WholeTextStage(TRUE)

\* " c2hl": its strict decode fails on the space, and the stage decodes
\* "c2hl" to "she" and stops at "she", whose length is no multiple of 4
C24_Witness ==
    /\ op = "normalize"
    /\ config = DefaultConfig
    /\ text = <<" ", "c", "2", "h", "l">>
    /\ IsNone(StrictDecode(text, FALSE))
    /\ ret = <<(<<"s", "h", "e">>), (<<"base64_decode_depth_1">>)>>

(***************************************************************************)
(* The substring Base64 stage.                                             *)
(***************************************************************************)
\* The maximal runs of Base64-alphabet characters of txt, as pairs (s, e)
\* for the characters s .. e - 1
AlphabetRuns(txt) ==
    {se \in (0..Len(txt)) \X (0..Len(txt)) :
        /\ se[1] < se[2]
        /\ \A i \in se[1]..(se[2] - 1) : txt[i + 1] \in BASE64_CHARS
        /\ se[1] = 0 \/ txt[se[1]] \notin BASE64_CHARS
        /\ se[2] = Len(txt) \/ txt[se[2] + 1] \notin BASE64_CHARS}

\* The runs that pass every gate of the stage: long enough, entropy not
\* below the threshold (in hundredths of a bit), strict decode accepted
Decodable(txt) ==
    {se \in AlphabetRuns(txt) :
        /\ se[2] - se[1] >= config.min_base64_substring_len
        /\ shannon_entropy(Slice(txt, se[1], se[2])) >= config.base64_entropy_threshold * 100
        /\ Accepted(Slice(txt, se[1], se[2]), FALSE)}

\* txt from position pos on with the runs of S replaced by their decodes
\* and every other character kept
RECURSIVE ReplacedFrom(_, _, _)
ReplacedFrom(txt, pos, S) ==
    IF pos >= Len(txt) THEN <<>>
    ELSE IF \E se \in S : se[1] = pos
         THEN LET se == CHOOSE se \in S : se[1] = pos
              IN Value(StrictDecode(Slice(txt, se[1], se[2]), FALSE))
                     \o ReplacedFrom(txt, se[2], S)
         ELSE <<txt[pos + 1]>> \o ReplacedFrom(txt, pos + 1, S)

\* C25: the substring stage changes nothing unless enable_base64 and
\* enable_substring_base64 are both on; when it runs, the spans it replaces
\* are maximal Base64-alphabet runs of at least the minimum length whose
\* entropy is not below the threshold and whose strict decode succeeds and
\* is at least 90% printable; its output is its input with those spans
\* replaced by their decodes, left to right, and every other character,
\* rejected spans included, in place; one step is recorded per span.
C25_SubstringStageFrame ==
    op = "normalize" =>
        \A stages \in {AfterStages} : \A before \in {stages[3]} : \A after \in {stages[4]} :
            /\ ~(config.enable_base64 /\ config.enable_substring_base64) => after = before
            /\ (config.enable_base64 /\ config.enable_substring_base64) =>
                  \E S \in SUBSET Decodable(before.out) :
                      /\ after.out = ReplacedFrom(before.out, 0, S)
                      /\ after.steps =
                            before.steps \o [j \in 1..Cardinality(S) |-> "base64_substring_decode"]
                      /\ after.err = "none"

\* "x c2hlc2hl y" with the entropy threshold at 0: the run "c2hlc2hl" is
\* replaced by "sheshe", and "x", " " and "y" stay where they were
C25_Witness ==
    /\ op = "normalize"
    /\ text = <<"x", " ", "c", "2", "h", "l", "c", "2", "h", "l", " ", "y">>
    /\ config.enable_base64 /\ config.enable_substring_base64
    /\ Decodable(text) = {<<2, 10>>}
    /\ AfterStages[4].out = <<"x", " ", "s", "h", "e", "s", "h", "e", " ", "y">>
    /\ "base64_substring_decode" \in {ret[2][j] : j \in DOMAIN ret[2]}

(***************************************************************************)
(* The cap on the candidate runs of the substring stage.                   *)
(***************************************************************************)
\* The candidate runs of txt: the maximal alphabet runs of at least the
\* minimum length
Candidates(txt) ==
    {se \in AlphabetRuns(txt) : se[2] - se[1] >= config.min_base64_substring_len}

\* The first max_base64_substrings candidate runs from the left
Considered(txt) ==
    {se \in Candidates(txt) :
        Cardinality({t \in Candidates(txt) : t[1] < se[1]}) < config.max_base64_substrings}

\* The number of base64_substring_decode entries of a step list
SubstringSteps(steps) ==
    Cardinality({j \in DOMAIN steps : steps[j] = "base64_substring_decode"})

\* C26: the substring stage considers only the first max_base64_substrings
\* candidate runs from the left, whatever the gates say of them: it
\* replaces exactly those of them that pass the gates, a run after the cap
\* stays undecoded even when every run before it was rejected, and the
\* steps of a normalize call hold at most max_base64_substrings
\* base64_substring_decode entries.
C26_SubstringCap ==
    op = "normalize" =>
        /\ SubstringSteps(ret[2]) <= config.max_base64_substrings
        /\ (config.enable_base64 /\ config.enable_substring_base64) =>
              \A stages \in {AfterStages} : \A before \in {stages[3]} : \A after \in {stages[4]} :
                  /\ after.out =
                        ReplacedFrom(before.out, 0,
                                     Decodable(before.out) \cap Considered(before.out))
                  /\ SubstringSteps(after.steps) =
                        Cardinality(Decodable(before.out) \cap Considered(before.out))

\* "AAAA c2hl" with a cap of 1: the first run, "AAAA", is rejected (it
\* decodes to three NUL characters), and "c2hl", which passes every gate,
\* is beyond the cap and stays
C26_Witness ==
    /\ op = "normalize"
    /\ config.max_base64_substrings = 1
    /\ text = <<"A", "A", "A", "A", " ", "c", "2", "h", "l">>
    /\ Candidates(text) = {<<0, 4>>, <<5, 9>>}
    /\ Decodable(text) = {<<5, 9>>}
    /\ Considered(text) = {<<0, 4>>}
    /\ ret = <<text, <<>>>>

(***************************************************************************)
(* search on an automaton that was not built.                              *)
(***************************************************************************)
\* C27: search and search_normalized on an automaton that is not built
\* leave the tables build() would have left and return what they return
\* after that build(); the automaton is built after every search, stays
\* built whatever is called next, and every add_pattern on it raises
\* RuntimeError and adds nothing.
C27_SearchBuildsFirst ==
    /\ [][(~is_built /\ op' \in {"search", "search_normalized"}) =>
            LET built == BuildAutomaton(Self)
                found == Scan(built, set_order, text, word_filters).results
            IN /\ is_built'
               /\ transitions' = built.transitions
               /\ outputs' = built.outputs
               /\ fail' = built.fail
               /\ err' = "none"
               /\ ret' = IF op' = "search" THEN found ELSE Normalized(found)]_vars
    /\ [](op \in {"search", "search_normalized"} => is_built)
    /\ [][is_built => is_built']_vars
    /\ [][(is_built /\ op' = "add_pattern") =>
            (err' = "RuntimeError" /\ added' = added /\ outputs' = outputs)]_vars

\* "he" and "she" added and "she_" searched without a build() in between:
\* the failure link of "she" is set and both patterns are found
C27_Witness ==
    /\ op = "search"
    /\ is_built
    /\ added = {He, She}
    /\ text = <<"s", "h", "e", "_">>
    /\ word_filters = None
    /\ fail[StateOf(She)] = StateOf(He)
    /\ {ret[j].keyword : j \in DOMAIN ret} = {He, She}

(***************************************************************************)
(* Pattern matches with and without word filters.                          *)
(***************************************************************************)
IsPatternMatch(m) ==
    m.match_type \in {MATCH_SUBSTRING, MATCH_PREFIX, MATCH_SUFFIX, MATCH_FULL_WORD}

\* C28: the pattern matches of a search with a filter list are, in order,
\* the matches of the search without filters; every other match is a
\* FILTERED_WORD match, returned only when the filter list is not empty;
\* and a match has the field filter_labels exactly when it is a
\* FILTERED_WORD match.
C28_FiltersLeavePatternMatches ==
    (op = "search" /\ err = "none") =>
        /\ SelectSeq(ret, IsPatternMatch) = Scan(Self, set_order, text, None).results
        /\ \A j \in DOMAIN ret :
              /\ IsPatternMatch(ret[j]) \/ IsFilteredWord(ret[j])
              /\ IsFilteredWord(ret[j]) => TruthyList(word_filters)
              /\ IsFilteredWord(ret[j]) <=> ("filter_labels" \in DOMAIN ret[j])

\* "she" searched for "he" with the alphabetic filter: the suffix match of
\* "he", as without filters, and after it the word "she"
C28_Witness ==
    /\ op = "search"
    /\ added = {He}
    /\ text = She
    /\ word_filters = Some(<<AlphaFilter>>)
    /\ Len(ret) = 2
    /\ ret[1].keyword = He /\ ret[1].match_type = MATCH_SUFFIX
    /\ ret[2].keyword = She /\ ret[2].match_type = MATCH_FILTERED_WORD
    /\ ret[2].filter_labels = <<"word">>

(***************************************************************************)
(* Matches of equal span in search_normalized.                             *)
(***************************************************************************)
\* m is one of the matches search_normalized returned
Kept(m) == \E j \in DOMAIN ret : ret[j] = m

\* A pattern match and a FILTERED_WORD match of search over one non-empty span
SameSpan(p, w) ==
    /\ IsPatternMatch(p) /\ IsFilteredWord(w)
    /\ p.start = w.start /\ p.end = w.end /\ p.start < p.end

\* No two pattern matches of search tie on (start, length), and
\* search_normalized returns the same list for both iteration orders of the
\* output sets
OrderIndependent(found) ==
    /\ \A i, j \in DOMAIN found :
          (i # j /\ IsPatternMatch(found[i]) /\ IsPatternMatch(found[j])) =>
              <<found[i].start, found[i].length>> # <<found[j].start, found[j].length>>
    /\ ret = Normalized(Scan(Self, "short_first", text, word_filters).results)
    /\ ret = Normalized(Scan(Self, "long_first", text, word_filters).results)

\* C29 as stated: of a pattern match and a FILTERED_WORD match over the
\* same span, search_normalized keeps the pattern match.
C29_PatternMatchKept ==
    (op = "search_normalized" /\ err = "none") =>
        \A found \in {Found} :
            /\ \A i, j \in DOMAIN found :
                  SameSpan(found[i], found[j]) => (Kept(found[i]) /\ ~Kept(found[j]))
            /\ OrderIndependent(found)

\* C29: of a pattern match and a FILTERED_WORD match over the same
\* non-empty span, search lists the pattern match first and
\* search_normalized never keeps the FILTERED_WORD match; it keeps the
\* pattern match unless it kept a match that starts at or before the start
\* of the span and ends after it.  No two pattern matches tie on
\* (start, length), and the result is the same for both iteration orders
\* of the output sets.
C29_PatternMatchPreferred ==
    (op = "search_normalized" /\ err = "none") =>
        \A found \in {Found} :
            /\ \A i, j \in DOMAIN found :
                  SameSpan(found[i], found[j]) =>
                      /\ i < j
                      /\ ~Kept(found[j])
                      /\ \/ Kept(found[i])
                         \/ \E k \in DOMAIN ret :
                               /\ ret[k] # found[i]
                               /\ ret[k].start <= found[i].start
                               /\ ret[k].end > found[i].start
            /\ OrderIndependent(found)

\* "he_" searched for "he" with the alphabetic filter: search returns the
\* pattern match and the word over [0, 2), search_normalized the pattern
\* match alone
C29_Witness ==
    /\ op = "search_normalized"
    /\ added = {He}
    /\ text = <<"h", "e", "_">>
    /\ word_filters = Some(<<AlphaFilter>>)
    /\ Len(Found) = 2
    /\ SameSpan(Found[1], Found[2])
    /\ ret = <<Found[1]>>

(***************************************************************************)
(* The registry cache and the create requests of routes/registries.py and  *)
(* routes/type_registry.py.  A request handler is one action; main.py      *)
(* awaits RegistryCache.initialize in its lifespan before the first        *)
(* request is served.                                                      *)
(***************************************************************************)
SensitivityIds == {"PII", "INTERNAL"}
ActionIds == {"MASK", "BLOCK"}
OperatorIds == {"equals", "contains_pii"}
CharsetIds == {"ascii"}
TypeIds == {"email"}

\* The database at startup: empty, or with one document per registry
SeededDocuments ==
    [sensitivity_registry |-> {"INTERNAL"}, action_registry |-> {"MASK"},
     operator_registry |-> {"equals"}, charset_registry |-> {"ascii"},
     type_registry |-> [t \in {"email"} |-> "INTERNAL"]]

InitRegistry ==
    /\ Constructed
    /\ db \in {NoDocuments, SeededDocuments}
    /\ cache = NewRegistryCache
    /\ set_order = "short_first"
    /\ added = {}
    /\ text = <<>>
    /\ word_filters = None
    /\ config = DefaultConfig
    /\ rules = <<>>
    /\ Idle

\* What the operations below leave alone
scanner == <<tables, env, added, span, threads>>

\* RegistryCache.initialize(db), awaited once at startup
RegistryCacheInitialize ==
    /\ op = "init"
    /\ op' = "initialize"
    /\ cache' = [sensitivities |-> db.sensitivity_registry,
                 actions |-> db.action_registry,
                 policy_operators |-> db.operator_registry,
                 charsets |-> db.charset_registry,
                 types |-> db.type_registry]
    /\ ret' = <<>>
    /\ err' = "none"
    /\ UNCHANGED <<db, scanner>>

\* POST /registries/sensitivities
create_sensitivity(sensitivity_id) ==
    /\ op # "init"
    /\ op' = "create_sensitivity"
    /\ IF sensitivity_id \in db.sensitivity_registry
       THEN /\ err' = "HTTPException"
            /\ ret' = <<>>
            /\ UNCHANGED registry
       ELSE /\ db' = [db EXCEPT !.sensitivity_registry = @ \cup {sensitivity_id}]
            /\ cache' = [cache EXCEPT !.sensitivities = @ \cup {sensitivity_id}]
            /\ err' = "none"
            /\ ret' = <<sensitivity_id>>
    /\ UNCHANGED scanner

\* POST /registries/actions
create_action(action_id) ==
    /\ op # "init"
    /\ op' = "create_action"
    /\ IF action_id \in db.action_registry
       THEN /\ err' = "HTTPException"
            /\ ret' = <<>>
            /\ UNCHANGED registry
       ELSE /\ db' = [db EXCEPT !.action_registry = @ \cup {action_id}]
            /\ cache' = [cache EXCEPT !.actions = @ \cup {action_id}]
            /\ err' = "none"
            /\ ret' = <<action_id>>
    /\ UNCHANGED scanner

\* POST /registries/operators: after insert_one the handler evaluates
\* RegistryCache.operators, an attribute the class does not have
create_operator(operator_id) ==
    /\ op # "init"
    /\ op' = "create_operator"
    /\ ret' = <<>>
    /\ IF operator_id \in db.operator_registry
       THEN /\ err' = "HTTPException"
            /\ UNCHANGED registry
       ELSE /\ db' = [db EXCEPT !.operator_registry = @ \cup {operator_id}]
            /\ err' = "AttributeError"
            /\ UNCHANGED cache
    /\ UNCHANGED scanner

\* POST /registries/charsets
create_charset(charset_id) ==
    /\ op # "init"
    /\ op' = "create_charset"
    /\ IF charset_id \in db.charset_registry
       THEN /\ err' = "HTTPException"
            /\ ret' = <<>>
            /\ UNCHANGED registry
       ELSE /\ db' = [db EXCEPT !.charset_registry = @ \cup {charset_id}]
            /\ cache' = [cache EXCEPT !.charsets = @ \cup {charset_id}]
            /\ err' = "none"
            /\ ret' = <<charset_id>>
    /\ UNCHANGED scanner

\* POST /types
create_type(type_id, sensitivity) ==
    /\ op # "init"
    /\ op' = "create_type"
    /\ IF sensitivity \notin cache.sensitivities \/ type_id \in DOMAIN db.type_registry
       THEN /\ err' = "HTTPException"
            /\ ret' = <<>>
            /\ UNCHANGED db
       ELSE /\ db' = [db EXCEPT !.type_registry =
                        [t \in DOMAIN @ \cup {type_id} |->
                            IF t = type_id THEN sensitivity ELSE @[t]]]
            /\ err' = "none"
            /\ ret' = <<type_id>>
    /\ UNCHANGED <<cache, scanner>>

NextRegistry ==
    \/ RegistryCacheInitialize
    \/ \E sensitivity_id \in SensitivityIds : create_sensitivity(sensitivity_id)
    \/ \E action_id \in ActionIds : create_action(action_id)
    \/ \E operator_id \in OperatorIds : create_operator(operator_id)
    \/ \E charset_id \in CharsetIds : create_charset(charset_id)
    \/ \E type_id \in TypeIds : \E sensitivity \in SensitivityIds :
          create_type(type_id, sensitivity)

SpecRegistry == InitRegistry /\ [][NextRegistry]_vars

\* RegistryResolver
is_valid_sensitivity(sensitivity_id) == sensitivity_id \in cache.sensitivities

is_valid_action(action_id) == action_id \in cache.actions

is_valid_operator(operator_id) == operator_id \in cache.policy_operators

\* dict.get(type_id): None for a type_id that is no key
get_type_sensitivity(type_id) ==
    IF type_id \in DOMAIN cache.types THEN Some(cache.types[type_id]) ELSE None

\* C30: once RegistryCache.initialize has run, whatever create requests
\* followed, every id stored in a registry collection is in the set or map
\* of RegistryCache for that collection, so the resolver accepts it; and a
\* create request ends in success unless it was refused with a 400, which
\* the handlers raise before they store anything.
C30_CacheCoherent ==
    op # "init" =>
        /\ \A id \in db.sensitivity_registry : is_valid_sensitivity(id)
        /\ \A id \in db.action_registry : is_valid_action(id)
        /\ \A id \in db.operator_registry : is_valid_operator(id)
        /\ db.charset_registry \subseteq cache.charsets
        /\ \A id \in DOMAIN db.type_registry : ~IsNone(get_type_sensitivity(id))
        /\ err \in {"none", "HTTPException"}

====
